---- MODULE Spec2Model ----
(***************************************************************************)
(* Tokenized vault (zenith-protocols/soroban-vault).  The model follows    *)
(* the contract entry points of src/src/contract.rs: deposit, mint,        *)
(* request_redeem, redeem, emergency_redeem, cancel_redeem, borrow, repay, *)
(* transfer_to, transfer_from.  Each entry point is one action covering    *)
(* the whole call: its authorization check, its validation, the calls on   *)
(* the asset token and the share token, and the storage writes.  For each  *)
(* entry point an Outcome operator gives what the call returns in the      *)
(* current state: "ok" or the error it panics with, in the order the code  *)
(* makes its checks.  A call that panics is rolled back by the host, so a  *)
(* failing call leaves every variable as it was.                           *)
(***************************************************************************)
EXTENDS Integers, FiniteSets, TLC

\* ------------------------------------------------------------------ bounds
MaxAmount == 2        \* largest amount argument of a call
MaxTime == 2          \* the ledger clock runs over 0..MaxTime
MaxShares == 2        \* deposits and mints are explored while total_shares <= MaxShares
MaxPool == 3          \* the conversion functions are applied to totals in 0..MaxPool

\* ------------------------------------------------------- program constants
SCALAR_7 == 10000000

\* -------------------------------------------------------------- principals
Users == {"u1", "u2"}
ConfiguredStrategies == {"s1"}
Callers == {"s1", "s2"}            \* principals that call the strategy entry points
VaultAddr == "vault"              \* e.current_contract_address()
NoRequest == [shares |-> 0, unlock_time |-> 0]
Amounts == 0 .. MaxAmount
\* asset tokens held when the vault is deployed; a strategy holds only what it
\* takes from the vault
InitialTokens(p) == IF p = "u1" THEN 2 ELSE IF p = "u2" THEN 1 ELSE 0
Principals == Users \cup Callers \cup {VaultAddr}
\* the LastDepositTime storage with no entry
NoDepositTimes == [u \in {} |-> 0]

VARIABLES
    total_shares,        \* storage: TotalShares
    total_tokens,        \* storage: TotalTokens
    requests,            \* storage: owner -> RedemptionRequest (NoRequest: no entry)
    strategy_data,       \* storage: strategy -> StrategyData
    strategies,          \* storage: the strategy list
    lock_time,           \* storage: LockTime
    penalty_rate,        \* storage: PenaltyRate
    min_liquidity_rate,  \* storage: MinLiquidityRate
    token_bal,           \* asset token balances
    share_bal,           \* share token balances
    gate_policy,         \* the share-transfer gate the variant is built with
    last_deposit_time,   \* storage: principal -> LastDepositTime (no entry: no record)
    now,                 \* e.ledger().timestamp()
    last                 \* the last call that succeeded (or the clock tick after it)

config == <<strategies, lock_time, penalty_rate, min_liquidity_rate, gate_policy>>
ledger == <<total_shares, total_tokens, requests, strategy_data, token_bal, share_bal>>
vars == <<total_shares, total_tokens, requests, strategy_data, strategies, lock_time,
          penalty_rate, min_liquidity_rate, token_bal, share_bal, gate_policy,
          last_deposit_time, now, last>>

\* ------------------------------------------------------ fixed point math
\* soroban_fixed_point_math: floor(x * y / d) and ceil(x * y / d); d = 0 panics
FixedMulFloor(x, y, d) == (x * y) \div d
FixedMulCeil(x, y, d) == -((-(x * y)) \div d)

\* ------------------------------------------------------------------ math.rs
\* Converter { total_shares, total_tokens }: the two totals are the first two
\* arguments
shares_from_tokens(shares_total, tokens_total, tokens) ==
    IF shares_total = 0 \/ tokens_total = 0 THEN tokens
    ELSE FixedMulFloor(tokens, shares_total, tokens_total)

\* mutant: the mint cost is taken at the inverse price
tokens_from_sharesInverted(shares_total, tokens_total, shares) ==
    IF shares_total = 0 \/ tokens_total = 0 THEN shares
    ELSE FixedMulCeil(shares, shares_total, tokens_total)

\* mutant: the mint cost is rounded down
tokens_from_sharesFloor(shares_total, tokens_total, shares) ==
    IF shares_total = 0 \/ tokens_total = 0 THEN shares
    ELSE FixedMulFloor(shares, tokens_total, shares_total)

tokens_from_shares(shares_total, tokens_total, shares) ==
    IF shares_total = 0 \/ tokens_total = 0 THEN shares
    ELSE FixedMulCeil(shares, tokens_total, shares_total)

redemption_value(shares_total, tokens_total, shares) ==
    IF shares_total = 0 THEN 0
    ELSE FixedMulFloor(shares, tokens_total, shares_total)

\* mutant: the full rate is charged until the unlock time
calculate_penaltyFlat(token_value, unlock_time, lock, rate, current_time) ==
    IF current_time >= unlock_time THEN 0
    ELSE FixedMulFloor(token_value, rate, SCALAR_7)

\* current_time is env.ledger().timestamp()
calculate_penalty(token_value, unlock_time, lock, rate, current_time) ==
    IF current_time >= unlock_time THEN 0
    ELSE LET time_remaining == unlock_time - current_time
             current_penalty_rate == FixedMulFloor(rate, time_remaining, lock)
         IN  FixedMulFloor(token_value, current_penalty_rate, SCALAR_7)

\* mutant: the required liquidity is rounded down
calculate_min_liquidityFloor(tokens_total, rate) ==
    IF tokens_total = 0 THEN 0
    ELSE FixedMulFloor(tokens_total, rate, SCALAR_7)

calculate_min_liquidity(tokens_total, rate) ==
    IF tokens_total = 0 THEN 0
    ELSE FixedMulCeil(tokens_total, rate, SCALAR_7)

\* ---------------------------------------------------------- collaborators
\* token::Client::transfer / burn: a negative amount or a short balance panics
CanTransfer(bal, from, amount) == amount >= 0 /\ bal[from] >= amount
Transfer(bal, from, to, amount) ==
    [[bal EXCEPT ![from] = @ - amount] EXCEPT ![to] = @ + amount]
Burn(bal, from, amount) == [bal EXCEPT ![from] = bal[from] - amount]
MintTo(bal, to, amount) == [bal EXCEPT ![to] = bal[to] + amount]

\* the record of a successful call: entry point, the principal it names, the
\* receiver of its payout, its amount argument and its return value
Call(op, who, rcv, amt, ret) == [op |-> op, who |-> who, rcv |-> rcv, amt |-> amt, ret |-> ret]
\* a panic: the host rolls the call back
Rollback == UNCHANGED vars

\* ------------------------------------------------------------ constructor
\* mutant: only the upper end of the rate range is validated
ConstructOutcomeUpperOnly(penalty, min_liquidity) ==
    IF penalty > SCALAR_7 THEN "InvalidAmount"
    ELSE IF min_liquidity > SCALAR_7 THEN "InvalidAmount"
    ELSE "ok"

ConstructOutcome(penalty, min_liquidity) ==
    IF penalty < 0 \/ penalty > SCALAR_7 THEN "InvalidAmount"
    ELSE IF min_liquidity < 0 \/ min_liquidity > SCALAR_7 THEN "InvalidAmount"
    ELSE "ok"

\* a construction that panics deploys nothing: there is no state after it
Construct(strats, lock, penalty, min_liquidity, funds) ==
    /\ ConstructOutcome(penalty, min_liquidity) = "ok"
    /\ strategies = strats
    /\ lock_time = lock
    /\ penalty_rate = penalty
    /\ min_liquidity_rate = min_liquidity
    /\ total_shares = 0
    /\ total_tokens = 0
    /\ requests = [u \in Users |-> NoRequest]
    /\ strategy_data = [s \in strats |-> [borrowed |-> 0, net_impact |-> 0]]
    /\ token_bal = funds
    /\ share_bal = [p \in Users \cup {VaultAddr} |-> 0]
    /\ gate_policy = "none"
    /\ last_deposit_time = NoDepositTimes
    /\ now = 0
    /\ last = Call("init", VaultAddr, VaultAddr, 0, 0)

Init == Construct(ConfiguredStrategies, 2, SCALAR_7 \div 2, SCALAR_7 \div 2,
                 [p \in Principals |-> InitialTokens(p)])

\* ----------------------------------------------------------------- deposit
\* mutant: the deposit is converted with ceiling rounding
DepositSharesCeil(tokens) ==
    IF total_shares = 0 \/ total_tokens = 0 THEN tokens
    ELSE FixedMulCeil(tokens, total_shares, total_tokens)

\* mutant: only an empty pool of tokens is treated as the bootstrap case
DepositSharesTokensOnly(tokens) ==
    IF total_tokens = 0 THEN tokens
    ELSE FixedMulFloor(tokens, total_shares, total_tokens)

DepositShares(tokens) ==
    IF total_shares = 0 \/ total_tokens = 0 THEN tokens
    ELSE FixedMulFloor(tokens, total_shares, total_tokens)

DepositOutcome(tokens, receiver, auth) ==
    IF ~auth THEN "Unauthorized"
    ELSE IF tokens <= 0 THEN "ZeroAmount"
    ELSE IF ~CanTransfer(token_bal, receiver, tokens) THEN "TokenError"
    ELSE IF DepositShares(tokens) < 0 THEN "TokenError"
    ELSE "ok"

DepositCall(tokens, receiver, auth) ==
    IF DepositOutcome(tokens, receiver, auth) # "ok" THEN Rollback
    ELSE LET shares == DepositShares(tokens)
         IN  /\ token_bal' = Transfer(token_bal, receiver, VaultAddr, tokens)
             /\ share_bal' = MintTo(share_bal, receiver, shares)
             /\ total_shares' = total_shares + shares
             /\ total_tokens' = total_tokens + tokens
             /\ last' = Call("deposit", receiver, receiver, tokens, shares)
             /\ UNCHANGED <<requests, strategy_data, config, last_deposit_time, now>>

\* deposit is explored while the share supply stays within MaxShares
Deposit(tokens, receiver, auth) ==
    /\ DepositOutcome(tokens, receiver, auth) = "ok"
          => total_shares + DepositShares(tokens) <= MaxShares
    /\ DepositCall(tokens, receiver, auth)

\* -------------------------------------------------------------------- mint
\* mutant: the mint is priced with floor rounding
MintTokensFloor(shares) ==
    IF total_shares = 0 \/ total_tokens = 0 THEN shares
    ELSE FixedMulFloor(shares, total_tokens, total_shares)

MintTokens(shares) ==
    IF total_shares = 0 \/ total_tokens = 0 THEN shares
    ELSE FixedMulCeil(shares, total_tokens, total_shares)

\* mutant: only a zero amount is refused
MintOutcomeZeroOnly(shares, receiver, auth) ==
    IF ~auth THEN "Unauthorized"
    ELSE IF shares = 0 THEN "ZeroAmount"
    ELSE IF ~CanTransfer(token_bal, receiver, MintTokens(shares)) THEN "TokenError"
    ELSE "ok"

MintOutcome(shares, receiver, auth) ==
    IF ~auth THEN "Unauthorized"
    ELSE IF shares <= 0 THEN "ZeroAmount"
    ELSE IF ~CanTransfer(token_bal, receiver, MintTokens(shares)) THEN "TokenError"
    ELSE "ok"

MintCall(shares, receiver, auth) ==
    IF MintOutcome(shares, receiver, auth) # "ok" THEN Rollback
    ELSE LET tokens == MintTokens(shares)
         IN  /\ token_bal' = Transfer(token_bal, receiver, VaultAddr, tokens)
             /\ share_bal' = MintTo(share_bal, receiver, shares)
             /\ total_shares' = total_shares + shares
             /\ total_tokens' = total_tokens + tokens
             /\ last' = Call("mint", receiver, receiver, shares, tokens)
             /\ UNCHANGED <<requests, strategy_data, config, last_deposit_time, now>>

\* mint is explored while the share supply stays within MaxShares
Mint(shares, receiver, auth) ==
    /\ MintOutcome(shares, receiver, auth) = "ok" => total_shares + shares <= MaxShares
    /\ MintCall(shares, receiver, auth)

\* ---------------------------------------------------------- request_redeem
has_redemption_request(owner) == requests[owner] # NoRequest

\* mutant: a second request is accepted while one is live
RequestRedeemOutcomeRepeatable(shares, owner, auth) ==
    IF ~auth THEN "Unauthorized"
    ELSE IF shares <= 0 THEN "ZeroAmount"
    ELSE IF ~CanTransfer(share_bal, owner, shares) THEN "TokenError"
    ELSE "ok"

RequestRedeemOutcome(shares, owner, auth) ==
    IF ~auth THEN "Unauthorized"
    ELSE IF shares <= 0 THEN "ZeroAmount"
    ELSE IF has_redemption_request(owner) THEN "WithdrawalInProgress"
    ELSE IF ~CanTransfer(share_bal, owner, shares) THEN "TokenError"
    ELSE "ok"

\* mutant: escrowed shares stop counting toward total_shares at request time
RequestRedeemUncounts(shares, owner, auth) ==
    IF RequestRedeemOutcome(shares, owner, auth) # "ok" THEN Rollback
    ELSE /\ share_bal' = Transfer(share_bal, owner, VaultAddr, shares)
         /\ requests' = [requests EXCEPT ![owner] =
                            [shares |-> shares, unlock_time |-> now + lock_time]]
         /\ total_shares' = total_shares - shares
         /\ last' = Call("request_redeem", owner, owner, shares, 0)
         /\ UNCHANGED <<total_tokens, strategy_data, token_bal, config, last_deposit_time, now>>

\* mutant: a request unlocks on the ledger after its lock time has run
RequestRedeemNextLedger(shares, owner, auth) ==
    IF RequestRedeemOutcome(shares, owner, auth) # "ok" THEN Rollback
    ELSE /\ share_bal' = Transfer(share_bal, owner, VaultAddr, shares)
         /\ requests' = [requests EXCEPT ![owner] =
                            [shares |-> shares, unlock_time |-> now + lock_time + 1]]
         /\ last' = Call("request_redeem", owner, owner, shares, 0)
         /\ UNCHANGED <<total_shares, total_tokens, strategy_data, token_bal,
                        config, last_deposit_time, now>>

RequestRedeem(shares, owner, auth) ==
    IF RequestRedeemOutcome(shares, owner, auth) # "ok" THEN Rollback
    ELSE /\ share_bal' = Transfer(share_bal, owner, VaultAddr, shares)
         /\ requests' = [requests EXCEPT ![owner] =
                            [shares |-> shares, unlock_time |-> now + lock_time]]
         /\ last' = Call("request_redeem", owner, owner, shares, 0)
         /\ UNCHANGED <<total_shares, total_tokens, strategy_data, token_bal,
                        config, last_deposit_time, now>>

\* ------------------------------------------------------------------ redeem
\* mutant: one token per share, the price at which the shares were minted
RedeemTokensAtPar(shares) == shares

RedeemTokens(shares) == FixedMulFloor(shares, total_tokens, total_shares)

\* mutant: the request is still locked at its unlock time
RedeemOutcomeLockedAtUnlock(shares, receiver, owner, auth) ==
    IF ~auth THEN "Unauthorized"
    ELSE IF ~has_redemption_request(owner) THEN "NotFound"
    ELSE IF now <= requests[owner].unlock_time THEN "WithdrawalLocked"
    ELSE IF shares > requests[owner].shares THEN "InsufficientShares"
    ELSE IF total_shares = 0 THEN "ArithmeticError"
    ELSE IF ~CanTransfer(share_bal, VaultAddr, shares) THEN "TokenError"
    ELSE IF ~CanTransfer(token_bal, VaultAddr, RedeemTokens(shares)) THEN "TokenError"
    ELSE IF /\ shares # requests[owner].shares
            /\ ~CanTransfer(Burn(share_bal, VaultAddr, shares), VaultAddr,
                            requests[owner].shares - shares)
    THEN "TokenError"
    ELSE "ok"

RedeemOutcome(shares, receiver, owner, auth) ==
    IF ~auth THEN "Unauthorized"
    ELSE IF ~has_redemption_request(owner) THEN "NotFound"
    ELSE IF now < requests[owner].unlock_time THEN "WithdrawalLocked"
    ELSE IF shares > requests[owner].shares THEN "InsufficientShares"
    ELSE IF total_shares = 0 THEN "ArithmeticError"
    ELSE IF ~CanTransfer(share_bal, VaultAddr, shares) THEN "TokenError"
    ELSE IF ~CanTransfer(token_bal, VaultAddr, RedeemTokens(shares)) THEN "TokenError"
    ELSE IF /\ shares # requests[owner].shares
            /\ ~CanTransfer(Burn(share_bal, VaultAddr, shares), VaultAddr,
                            requests[owner].shares - shares)
    THEN "TokenError"
    ELSE "ok"

\* mutant: when the payout transfer fails the share burn before it persists
RedeemBurnPersists(shares, receiver, owner, auth) ==
    IF RedeemOutcome(shares, receiver, owner, auth) = "ok"
    THEN LET request == requests[owner]
             tokens == RedeemTokens(shares)
             burned == Burn(share_bal, VaultAddr, shares)
         IN  /\ token_bal' = Transfer(token_bal, VaultAddr, receiver, tokens)
             /\ total_shares' = total_shares - shares
             /\ total_tokens' = total_tokens - tokens
             /\ IF shares = request.shares
                THEN /\ requests' = [requests EXCEPT ![owner] = NoRequest]
                     /\ share_bal' = burned
                ELSE /\ requests' = [requests EXCEPT ![owner] =
                                        [shares |-> request.shares - shares,
                                         unlock_time |-> request.unlock_time]]
                     /\ share_bal' = Transfer(burned, VaultAddr, owner,
                                              request.shares - shares)
             /\ last' = Call("redeem", owner, receiver, shares, tokens)
             /\ UNCHANGED <<strategy_data, config, last_deposit_time, now>>
    ELSE IF /\ RedeemOutcome(shares, receiver, owner, auth) = "TokenError"
            /\ CanTransfer(share_bal, VaultAddr, shares)
    THEN /\ share_bal' = Burn(share_bal, VaultAddr, shares)
         /\ UNCHANGED <<total_shares, total_tokens, requests, strategy_data, token_bal,
                        config, last_deposit_time, now, last>>
    ELSE Rollback

\* mutant: a partial redeem shrinks the request but keeps the un-redeemed
\* shares in the vault's custody
RedeemKeepsEscrow(shares, receiver, owner, auth) ==
    IF RedeemOutcome(shares, receiver, owner, auth) # "ok" THEN Rollback
    ELSE LET request == requests[owner]
             tokens == RedeemTokens(shares)
         IN  /\ token_bal' = Transfer(token_bal, VaultAddr, receiver, tokens)
             /\ total_shares' = total_shares - shares
             /\ total_tokens' = total_tokens - tokens
             /\ requests' = [requests EXCEPT ![owner] =
                                IF shares = request.shares THEN NoRequest
                                ELSE [shares |-> request.shares - shares,
                                      unlock_time |-> request.unlock_time]]
             /\ share_bal' = Burn(share_bal, VaultAddr, shares)
             /\ last' = Call("redeem", owner, receiver, shares, tokens)
             /\ UNCHANGED <<strategy_data, config, last_deposit_time, now>>

\* mutant: the payout is not taken off total_tokens
RedeemKeepsTokens(shares, receiver, owner, auth) ==
    IF RedeemOutcome(shares, receiver, owner, auth) # "ok" THEN Rollback
    ELSE LET request == requests[owner]
             tokens == RedeemTokens(shares)
             burned == Burn(share_bal, VaultAddr, shares)
         IN  /\ token_bal' = Transfer(token_bal, VaultAddr, receiver, tokens)
             /\ total_shares' = total_shares - shares
             /\ IF shares = request.shares
                THEN /\ requests' = [requests EXCEPT ![owner] = NoRequest]
                     /\ share_bal' = burned
                ELSE /\ requests' = [requests EXCEPT ![owner] =
                                        [shares |-> request.shares - shares,
                                         unlock_time |-> request.unlock_time]]
                     /\ share_bal' = Transfer(burned, VaultAddr, owner,
                                              request.shares - shares)
             /\ last' = Call("redeem", owner, receiver, shares, tokens)
             /\ UNCHANGED <<total_tokens, strategy_data, config, last_deposit_time, now>>

Redeem(shares, receiver, owner, auth) ==
    IF RedeemOutcome(shares, receiver, owner, auth) # "ok" THEN Rollback
    ELSE LET request == requests[owner]
             tokens == RedeemTokens(shares)
             burned == Burn(share_bal, VaultAddr, shares)
         IN  /\ token_bal' = Transfer(token_bal, VaultAddr, receiver, tokens)
             /\ total_shares' = total_shares - shares
             /\ total_tokens' = total_tokens - tokens
             /\ IF shares = request.shares
                THEN /\ requests' = [requests EXCEPT ![owner] = NoRequest]
                     /\ share_bal' = burned
                ELSE /\ requests' = [requests EXCEPT ![owner] =
                                        [shares |-> request.shares - shares,
                                         unlock_time |-> request.unlock_time]]
                     /\ share_bal' = Transfer(burned, VaultAddr, owner,
                                              request.shares - shares)
             /\ last' = Call("redeem", owner, receiver, shares, tokens)
             /\ UNCHANGED <<strategy_data, config, last_deposit_time, now>>

\* -------------------------------------------------------- emergency_redeem
\* mutant: the emergency value is rounded up
EmergencyValueCeil(owner) ==
    FixedMulCeil(requests[owner].shares, total_tokens, total_shares)

EmergencyValue(owner) ==
    FixedMulFloor(requests[owner].shares, total_tokens, total_shares)

EmergencyPenalty(owner) ==
    IF now >= requests[owner].unlock_time THEN 0
    ELSE LET time_remaining == requests[owner].unlock_time - now
             current_penalty_rate == FixedMulFloor(penalty_rate, time_remaining, lock_time)
         IN  FixedMulFloor(EmergencyValue(owner), current_penalty_rate, SCALAR_7)

EmergencyPayout(owner) == EmergencyValue(owner) - EmergencyPenalty(owner)

EmergencyRedeemOutcome(owner, auth) ==
    IF ~auth THEN "Unauthorized"
    ELSE IF ~has_redemption_request(owner) THEN "NotFound"
    ELSE IF total_shares = 0 THEN "ArithmeticError"
    ELSE IF now < requests[owner].unlock_time /\ lock_time = 0 THEN "ArithmeticError"
    ELSE IF EmergencyPayout(owner) <= 0 THEN "InvalidAmount"
    ELSE IF ~CanTransfer(share_bal, VaultAddr, requests[owner].shares) THEN "TokenError"
    ELSE IF ~CanTransfer(token_bal, VaultAddr, EmergencyPayout(owner)) THEN "TokenError"
    ELSE "ok"

\* mutant: the penalty leaves total_tokens together with the payout
EmergencyRedeemFullValue(owner, auth) ==
    IF EmergencyRedeemOutcome(owner, auth) # "ok" THEN Rollback
    ELSE LET request == requests[owner]
             withdrawal_amount == EmergencyPayout(owner)
         IN  /\ share_bal' = Burn(share_bal, VaultAddr, request.shares)
             /\ token_bal' = Transfer(token_bal, VaultAddr, owner, withdrawal_amount)
             /\ total_shares' = total_shares - request.shares
             /\ total_tokens' = total_tokens - EmergencyValue(owner)
             /\ requests' = [requests EXCEPT ![owner] = NoRequest]
             /\ last' = Call("emergency_redeem", owner, owner, request.shares, withdrawal_amount)
             /\ UNCHANGED <<strategy_data, config, last_deposit_time, now>>

EmergencyRedeem(owner, auth) ==
    IF EmergencyRedeemOutcome(owner, auth) # "ok" THEN Rollback
    ELSE LET request == requests[owner]
             withdrawal_amount == EmergencyPayout(owner)
         IN  /\ share_bal' = Burn(share_bal, VaultAddr, request.shares)
             /\ token_bal' = Transfer(token_bal, VaultAddr, owner, withdrawal_amount)
             /\ total_shares' = total_shares - request.shares
             /\ total_tokens' = total_tokens - withdrawal_amount
             /\ requests' = [requests EXCEPT ![owner] = NoRequest]
             /\ last' = Call("emergency_redeem", owner, owner, request.shares, withdrawal_amount)
             /\ UNCHANGED <<strategy_data, config, last_deposit_time, now>>

\* ----------------------------------------------------------- cancel_redeem
\* mutant: the owner's authorization is not required
CancelRedeemOutcomeNoAuth(owner, auth) ==
    IF ~has_redemption_request(owner) THEN "NotFound"
    ELSE IF ~CanTransfer(share_bal, VaultAddr, requests[owner].shares) THEN "TokenError"
    ELSE "ok"

\* mutant: a missing request is read as a request for zero shares
CancelRedeemOutcomeDefaulted(owner, auth) ==
    IF ~auth THEN "Unauthorized"
    ELSE IF ~CanTransfer(share_bal, VaultAddr, requests[owner].shares) THEN "TokenError"
    ELSE "ok"

CancelRedeemOutcome(owner, auth) ==
    IF ~auth THEN "Unauthorized"
    ELSE IF ~has_redemption_request(owner) THEN "NotFound"
    ELSE IF ~CanTransfer(share_bal, VaultAddr, requests[owner].shares) THEN "TokenError"
    ELSE "ok"

CancelRedeem(owner, auth) ==
    IF CancelRedeemOutcome(owner, auth) # "ok" THEN Rollback
    ELSE /\ share_bal' = Transfer(share_bal, VaultAddr, owner, requests[owner].shares)
         /\ requests' = [requests EXCEPT ![owner] = NoRequest]
         /\ last' = Call("cancel_redeem", owner, owner, requests[owner].shares, 0)
         /\ UNCHANGED <<total_shares, total_tokens, strategy_data, token_bal,
                        config, last_deposit_time, now>>

\* ------------------------------------------------------------------ borrow
RequiredLiquidity == FixedMulCeil(total_tokens, min_liquidity_rate, SCALAR_7)

\* mutant: the guard refuses a borrow of exactly the available liquidity
BorrowOutcomeStrict(strategy, amount, auth) ==
    IF ~auth THEN "Unauthorized"
    ELSE IF amount <= 0 THEN "ZeroAmount"
    ELSE IF strategy \notin strategies THEN "UnauthorizedStrategy"
    ELSE IF token_bal[VaultAddr] <= RequiredLiquidity THEN "InsufficientVaultBalance"
    ELSE IF amount >= token_bal[VaultAddr] - RequiredLiquidity THEN "InsufficientVaultBalance"
    ELSE IF ~CanTransfer(token_bal, VaultAddr, amount) THEN "TokenError"
    ELSE "ok"

\* mutant: borrow checks the on-hand balance only, not the reserve
BorrowOutcomeNoReserve(strategy, amount, auth) ==
    IF ~auth THEN "Unauthorized"
    ELSE IF amount <= 0 THEN "ZeroAmount"
    ELSE IF strategy \notin strategies THEN "UnauthorizedStrategy"
    ELSE IF ~CanTransfer(token_bal, VaultAddr, amount) THEN "TokenError"
    ELSE "ok"

BorrowOutcome(strategy, amount, auth) ==
    IF ~auth THEN "Unauthorized"
    ELSE IF amount <= 0 THEN "ZeroAmount"
    ELSE IF strategy \notin strategies THEN "UnauthorizedStrategy"
    ELSE IF token_bal[VaultAddr] <= RequiredLiquidity THEN "InsufficientVaultBalance"
    ELSE IF amount > token_bal[VaultAddr] - RequiredLiquidity THEN "InsufficientVaultBalance"
    ELSE IF ~CanTransfer(token_bal, VaultAddr, amount) THEN "TokenError"
    ELSE "ok"

\* mutant: a loan is written off the books when it is made
BorrowWritesOff(strategy, amount, auth) ==
    IF BorrowOutcome(strategy, amount, auth) # "ok" THEN Rollback
    ELSE /\ token_bal' = Transfer(token_bal, VaultAddr, strategy, amount)
         /\ strategy_data' = [strategy_data EXCEPT ![strategy].borrowed = @ + amount]
         /\ total_tokens' = total_tokens - amount
         /\ last' = Call("borrow", strategy, strategy, amount, 0)
         /\ UNCHANGED <<total_shares, requests, share_bal, config, last_deposit_time, now>>

Borrow(strategy, amount, auth) ==
    IF BorrowOutcome(strategy, amount, auth) # "ok" THEN Rollback
    ELSE /\ token_bal' = Transfer(token_bal, VaultAddr, strategy, amount)
         /\ strategy_data' = [strategy_data EXCEPT ![strategy].borrowed = @ + amount]
         /\ last' = Call("borrow", strategy, strategy, amount, 0)
         /\ UNCHANGED <<total_shares, total_tokens, requests, share_bal,
                        config, last_deposit_time, now>>

\* ------------------------------------------------------------------- repay
\* mutant: a repayment above the debt is accepted
RepayOutcomeUnchecked(strategy, amount, auth) ==
    IF ~auth THEN "Unauthorized"
    ELSE IF amount <= 0 THEN "ZeroAmount"
    ELSE IF strategy \notin strategies THEN "UnauthorizedStrategy"
    ELSE IF ~CanTransfer(token_bal, strategy, amount) THEN "TokenError"
    ELSE "ok"

RepayOutcome(strategy, amount, auth) ==
    IF ~auth THEN "Unauthorized"
    ELSE IF amount <= 0 THEN "ZeroAmount"
    ELSE IF strategy \notin strategies THEN "UnauthorizedStrategy"
    ELSE IF amount > strategy_data[strategy].borrowed THEN "InvalidAmount"
    ELSE IF ~CanTransfer(token_bal, strategy, amount) THEN "TokenError"
    ELSE "ok"

\* mutant: a repayment is booked as new assets
RepayRaisesTotal(strategy, amount, auth) ==
    IF RepayOutcome(strategy, amount, auth) # "ok" THEN Rollback
    ELSE /\ token_bal' = Transfer(token_bal, strategy, VaultAddr, amount)
         /\ strategy_data' = [strategy_data EXCEPT ![strategy].borrowed = @ - amount]
         /\ total_tokens' = total_tokens + amount
         /\ last' = Call("repay", strategy, strategy, amount, 0)
         /\ UNCHANGED <<total_shares, requests, share_bal, config, last_deposit_time, now>>

Repay(strategy, amount, auth) ==
    IF RepayOutcome(strategy, amount, auth) # "ok" THEN Rollback
    ELSE /\ token_bal' = Transfer(token_bal, strategy, VaultAddr, amount)
         /\ strategy_data' = [strategy_data EXCEPT ![strategy].borrowed = @ - amount]
         /\ last' = Call("repay", strategy, strategy, amount, 0)
         /\ UNCHANGED <<total_shares, total_tokens, requests, share_bal,
                        config, last_deposit_time, now>>

\* ------------------------------------------------------------- transfer_to
\* mutant: the strategy list is not consulted
TransferToOutcomeAnyone(strategy, amount, auth) ==
    IF ~auth THEN "Unauthorized"
    ELSE IF amount <= 0 THEN "ZeroAmount"
    ELSE IF ~CanTransfer(token_bal, VaultAddr, amount) THEN "TokenError"
    ELSE "ok"

TransferToOutcome(strategy, amount, auth) ==
    IF ~auth THEN "Unauthorized"
    ELSE IF amount <= 0 THEN "ZeroAmount"
    ELSE IF strategy \notin strategies THEN "UnauthorizedStrategy"
    ELSE IF ~CanTransfer(token_bal, VaultAddr, amount) THEN "TokenError"
    ELSE "ok"

\* mutant: the loss is booked on the strategy but not on total_tokens
TransferToKeepsTotal(strategy, amount, auth) ==
    IF TransferToOutcome(strategy, amount, auth) # "ok" THEN Rollback
    ELSE /\ token_bal' = Transfer(token_bal, VaultAddr, strategy, amount)
         /\ strategy_data' = [strategy_data EXCEPT ![strategy].net_impact = @ - amount]
         /\ last' = Call("transfer_to", strategy, strategy, amount, 0)
         /\ UNCHANGED <<total_shares, total_tokens, requests, share_bal,
                        config, last_deposit_time, now>>

TransferTo(strategy, amount, auth) ==
    IF TransferToOutcome(strategy, amount, auth) # "ok" THEN Rollback
    ELSE /\ token_bal' = Transfer(token_bal, VaultAddr, strategy, amount)
         /\ strategy_data' = [strategy_data EXCEPT ![strategy].net_impact = @ - amount]
         /\ total_tokens' = total_tokens - amount
         /\ last' = Call("transfer_to", strategy, strategy, amount, 0)
         /\ UNCHANGED <<total_shares, requests, share_bal, config, last_deposit_time, now>>

\* ----------------------------------------------------------- transfer_from
TransferFromOutcome(strategy, amount, auth) ==
    IF ~auth THEN "Unauthorized"
    ELSE IF amount <= 0 THEN "ZeroAmount"
    ELSE IF strategy \notin strategies THEN "UnauthorizedStrategy"
    ELSE IF ~CanTransfer(token_bal, strategy, amount) THEN "TokenError"
    ELSE "ok"

\* mutant: tokens handed over by a strategy are not counted in total_tokens
TransferFromKeepsTotal(strategy, amount, auth) ==
    IF TransferFromOutcome(strategy, amount, auth) # "ok" THEN Rollback
    ELSE /\ token_bal' = Transfer(token_bal, strategy, VaultAddr, amount)
         /\ strategy_data' = [strategy_data EXCEPT ![strategy].net_impact = @ + amount]
         /\ last' = Call("transfer_from", strategy, strategy, amount, 0)
         /\ UNCHANGED <<total_shares, total_tokens, requests, share_bal,
                        config, last_deposit_time, now>>

TransferFrom(strategy, amount, auth) ==
    IF TransferFromOutcome(strategy, amount, auth) # "ok" THEN Rollback
    ELSE /\ token_bal' = Transfer(token_bal, strategy, VaultAddr, amount)
         /\ strategy_data' = [strategy_data EXCEPT ![strategy].net_impact = @ + amount]
         /\ total_tokens' = total_tokens + amount
         /\ last' = Call("transfer_from", strategy, strategy, amount, 0)
         /\ UNCHANGED <<total_shares, requests, share_bal, config, last_deposit_time, now>>

\* ---------------------------------------------------------- validation.rs
\* each check is the condition under which the function returns; otherwise
\* it panics with the error named beside it in the callers below
require_positive_amount(amount) == amount > 0

require_authorized_strategy(strategy) == strategy \in strategies

require_sufficient_liquidity(requested_amount, vault_balance) ==
    LET required_liquidity == calculate_min_liquidity(total_tokens, min_liquidity_rate)
    IN  /\ vault_balance > required_liquidity
        /\ requested_amount <= vault_balance - required_liquidity

require_no_pending_redemption(user) == ~has_redemption_request(user)

require_redemption_unlocked(unlock_time) == now >= unlock_time

require_valid_repayment(amount, borrowed) == amount <= borrowed

require_positive_result(amount) == amount > 0

\* called by vault::redeem; a caller-specified amount above the request fails
require_shares_within_request(shares, requested) == shares <= requested

\* ----------------------------------------------- vault.rs (modular variant)
\* the functions of vault.rs and strategy.rs take no authorization of their
\* own: they are written to run behind an entry point that has taken it
VaultDepositOutcome(tokens, receiver) ==
    IF ~require_positive_amount(tokens) THEN "InvalidAmount"
    ELSE IF ~CanTransfer(token_bal, receiver, tokens) THEN "TokenError"
    ELSE IF shares_from_tokens(total_shares, total_tokens, tokens) < 0 THEN "TokenError"
    ELSE "ok"

VaultDeposit(tokens, receiver) ==
    IF VaultDepositOutcome(tokens, receiver) # "ok" THEN Rollback
    ELSE LET shares == shares_from_tokens(total_shares, total_tokens, tokens)
         IN  /\ token_bal' = Transfer(token_bal, receiver, VaultAddr, tokens)
             /\ share_bal' = MintTo(share_bal, receiver, shares)
             /\ total_shares' = total_shares + shares
             /\ total_tokens' = total_tokens + tokens
             /\ last' = Call("deposit", receiver, receiver, tokens, shares)
             /\ UNCHANGED <<requests, strategy_data, config, last_deposit_time, now>>

VaultMintOutcome(shares, receiver) ==
    IF ~require_positive_amount(shares) THEN "InvalidAmount"
    ELSE IF ~CanTransfer(token_bal, receiver,
                         tokens_from_shares(total_shares, total_tokens, shares))
    THEN "TokenError"
    ELSE "ok"

VaultMint(shares, receiver) ==
    IF VaultMintOutcome(shares, receiver) # "ok" THEN Rollback
    ELSE LET tokens == tokens_from_shares(total_shares, total_tokens, shares)
         IN  /\ token_bal' = Transfer(token_bal, receiver, VaultAddr, tokens)
             /\ share_bal' = MintTo(share_bal, receiver, shares)
             /\ total_shares' = total_shares + shares
             /\ total_tokens' = total_tokens + tokens
             /\ last' = Call("mint", receiver, receiver, shares, tokens)
             /\ UNCHANGED <<requests, strategy_data, config, last_deposit_time, now>>

VaultRequestRedeemOutcome(shares, owner) ==
    IF ~require_positive_amount(shares) THEN "InvalidAmount"
    ELSE IF ~require_no_pending_redemption(owner) THEN "RedemptionInProgress"
    ELSE IF ~CanTransfer(share_bal, owner, shares) THEN "TokenError"
    ELSE "ok"

VaultRequestRedeem(shares, owner) ==
    IF VaultRequestRedeemOutcome(shares, owner) # "ok" THEN Rollback
    ELSE /\ share_bal' = Transfer(share_bal, owner, VaultAddr, shares)
         /\ requests' = [requests EXCEPT ![owner] =
                            [shares |-> shares, unlock_time |-> now + lock_time]]
         /\ last' = Call("request_redeem", owner, owner, shares, 0)
         /\ UNCHANGED <<total_shares, total_tokens, strategy_data, token_bal,
                        config, last_deposit_time, now>>

VaultRedeemOutcome(shares, receiver, owner) ==
    IF ~has_redemption_request(owner) THEN "NotFound"
    ELSE IF ~require_redemption_unlocked(requests[owner].unlock_time)
    THEN "RedemptionLocked"
    ELSE IF ~require_shares_within_request(shares, requests[owner].shares)
    THEN "InsufficientShares"
    ELSE IF ~CanTransfer(share_bal, VaultAddr, shares) THEN "TokenError"
    ELSE IF ~CanTransfer(token_bal, VaultAddr,
                         redemption_value(total_shares, total_tokens, shares))
    THEN "TokenError"
    ELSE IF /\ shares # requests[owner].shares
            /\ ~CanTransfer(Burn(share_bal, VaultAddr, shares), VaultAddr,
                            requests[owner].shares - shares)
    THEN "TokenError"
    ELSE "ok"

VaultRedeem(shares, receiver, owner) ==
    IF VaultRedeemOutcome(shares, receiver, owner) # "ok" THEN Rollback
    ELSE LET request == requests[owner]
             tokens == redemption_value(total_shares, total_tokens, shares)
             burned == Burn(share_bal, VaultAddr, shares)
         IN  /\ token_bal' = Transfer(token_bal, VaultAddr, receiver, tokens)
             /\ total_shares' = total_shares - shares
             /\ total_tokens' = total_tokens - tokens
             /\ IF shares = request.shares
                THEN /\ requests' = [requests EXCEPT ![owner] = NoRequest]
                     /\ share_bal' = burned
                ELSE /\ requests' = [requests EXCEPT ![owner] =
                                        [shares |-> request.shares - shares,
                                         unlock_time |-> request.unlock_time]]
                     /\ share_bal' = Transfer(burned, VaultAddr, owner,
                                              request.shares - shares)
             /\ last' = Call("redeem", owner, receiver, shares, tokens)
             /\ UNCHANGED <<strategy_data, config, last_deposit_time, now>>

VaultEmergencyValue(owner) ==
    redemption_value(total_shares, total_tokens, requests[owner].shares)

VaultEmergencyPayout(owner) ==
    VaultEmergencyValue(owner)
        - calculate_penalty(VaultEmergencyValue(owner), requests[owner].unlock_time,
                            lock_time, penalty_rate, now)

VaultEmergencyRedeemOutcome(owner) ==
    IF ~has_redemption_request(owner) THEN "NotFound"
    ELSE IF now < requests[owner].unlock_time /\ lock_time = 0 THEN "ArithmeticError"
    ELSE IF ~require_positive_result(VaultEmergencyPayout(owner)) THEN "InvalidAmount"
    ELSE IF ~CanTransfer(share_bal, VaultAddr, requests[owner].shares) THEN "TokenError"
    ELSE IF ~CanTransfer(token_bal, VaultAddr, VaultEmergencyPayout(owner))
    THEN "TokenError"
    ELSE "ok"

VaultEmergencyRedeem(owner) ==
    IF VaultEmergencyRedeemOutcome(owner) # "ok" THEN Rollback
    ELSE LET request == requests[owner]
             withdrawal_amount == VaultEmergencyPayout(owner)
         IN  /\ share_bal' = Burn(share_bal, VaultAddr, request.shares)
             /\ token_bal' = Transfer(token_bal, VaultAddr, owner, withdrawal_amount)
             /\ total_shares' = total_shares - request.shares
             /\ total_tokens' = total_tokens - withdrawal_amount
             /\ requests' = [requests EXCEPT ![owner] = NoRequest]
             /\ last' = Call("emergency_redeem", owner, owner, request.shares,
                             withdrawal_amount)
             /\ UNCHANGED <<strategy_data, config, last_deposit_time, now>>

VaultCancelRedeemOutcome(owner) ==
    IF ~has_redemption_request(owner) THEN "NotFound"
    ELSE IF ~CanTransfer(share_bal, VaultAddr, requests[owner].shares) THEN "TokenError"
    ELSE "ok"

VaultCancelRedeem(owner) ==
    IF VaultCancelRedeemOutcome(owner) # "ok" THEN Rollback
    ELSE /\ share_bal' = Transfer(share_bal, VaultAddr, owner, requests[owner].shares)
         /\ requests' = [requests EXCEPT ![owner] = NoRequest]
         /\ last' = Call("cancel_redeem", owner, owner, requests[owner].shares, 0)
         /\ UNCHANGED <<total_shares, total_tokens, strategy_data, token_bal,
                        config, last_deposit_time, now>>

\* -------------------------------------------- strategy.rs (modular variant)
StrategyBorrowOutcome(strategy, amount) ==
    IF ~require_positive_amount(amount) THEN "InvalidAmount"
    ELSE IF ~require_authorized_strategy(strategy) THEN "UnauthorizedStrategy"
    ELSE IF ~require_sufficient_liquidity(amount, token_bal[VaultAddr])
    THEN "InsufficientVaultBalance"
    ELSE IF ~CanTransfer(token_bal, VaultAddr, amount) THEN "TokenError"
    ELSE "ok"

StrategyBorrow(strategy, amount) ==
    IF StrategyBorrowOutcome(strategy, amount) # "ok" THEN Rollback
    ELSE /\ token_bal' = Transfer(token_bal, VaultAddr, strategy, amount)
         /\ strategy_data' = [strategy_data EXCEPT ![strategy].borrowed = @ + amount]
         /\ last' = Call("borrow", strategy, strategy, amount, 0)
         /\ UNCHANGED <<total_shares, total_tokens, requests, share_bal,
                        config, last_deposit_time, now>>

StrategyRepayOutcome(strategy, amount) ==
    IF ~require_positive_amount(amount) THEN "InvalidAmount"
    ELSE IF ~require_authorized_strategy(strategy) THEN "UnauthorizedStrategy"
    ELSE IF ~require_valid_repayment(amount, strategy_data[strategy].borrowed)
    THEN "InvalidAmount"
    ELSE IF ~CanTransfer(token_bal, strategy, amount) THEN "TokenError"
    ELSE "ok"

StrategyRepay(strategy, amount) ==
    IF StrategyRepayOutcome(strategy, amount) # "ok" THEN Rollback
    ELSE /\ token_bal' = Transfer(token_bal, strategy, VaultAddr, amount)
         /\ strategy_data' = [strategy_data EXCEPT ![strategy].borrowed = @ - amount]
         /\ last' = Call("repay", strategy, strategy, amount, 0)
         /\ UNCHANGED <<total_shares, total_tokens, requests, share_bal,
                        config, last_deposit_time, now>>

StrategyTransferToOutcome(strategy, amount) ==
    IF ~require_positive_amount(amount) THEN "InvalidAmount"
    ELSE IF ~require_authorized_strategy(strategy) THEN "UnauthorizedStrategy"
    ELSE IF ~CanTransfer(token_bal, VaultAddr, amount) THEN "TokenError"
    ELSE "ok"

StrategyTransferTo(strategy, amount) ==
    IF StrategyTransferToOutcome(strategy, amount) # "ok" THEN Rollback
    ELSE /\ token_bal' = Transfer(token_bal, VaultAddr, strategy, amount)
         /\ strategy_data' = [strategy_data EXCEPT ![strategy].net_impact = @ - amount]
         /\ total_tokens' = total_tokens - amount
         /\ last' = Call("transfer_to", strategy, strategy, amount, 0)
         /\ UNCHANGED <<total_shares, requests, share_bal, config, last_deposit_time, now>>

StrategyTransferFromOutcome(strategy, amount) ==
    IF ~require_positive_amount(amount) THEN "InvalidAmount"
    ELSE IF ~require_authorized_strategy(strategy) THEN "UnauthorizedStrategy"
    ELSE IF ~CanTransfer(token_bal, strategy, amount) THEN "TokenError"
    ELSE "ok"

StrategyTransferFrom(strategy, amount) ==
    IF StrategyTransferFromOutcome(strategy, amount) # "ok" THEN Rollback
    ELSE /\ token_bal' = Transfer(token_bal, strategy, VaultAddr, amount)
         /\ strategy_data' = [strategy_data EXCEPT ![strategy].net_impact = @ + amount]
         /\ total_tokens' = total_tokens + amount
         /\ last' = Call("transfer_from", strategy, strategy, amount, 0)
         /\ UNCHANGED <<total_shares, requests, share_bal, config, last_deposit_time, now>>

\* ------------------------------------------------------------------- clock
Tick ==
    /\ now < MaxTime
    /\ now' = now + 1
    /\ last' = Call("tick", VaultAddr, VaultAddr, 0, 0)
    /\ UNCHANGED <<ledger, config, last_deposit_time>>

Next ==
    \/ \E t \in Amounts, r \in Users, a \in BOOLEAN : Deposit(t, r, a)
    \/ \E n \in Amounts, r \in Users, a \in BOOLEAN : Mint(n, r, a)
    \/ \E n \in Amounts, o \in Users, a \in BOOLEAN : RequestRedeem(n, o, a)
    \/ \E n \in Amounts, r \in Users, o \in Users, a \in BOOLEAN : Redeem(n, r, o, a)
    \/ \E o \in Users, a \in BOOLEAN : EmergencyRedeem(o, a)
    \/ \E o \in Users, a \in BOOLEAN : CancelRedeem(o, a)
    \/ \E s \in Callers, n \in Amounts, a \in BOOLEAN : Borrow(s, n, a)
    \/ \E s \in Callers, n \in Amounts, a \in BOOLEAN : Repay(s, n, a)
    \/ \E s \in Callers, n \in Amounts, a \in BOOLEAN : TransferTo(s, n, a)
    \/ \E s \in Callers, n \in Amounts, a \in BOOLEAN : TransferFrom(s, n, a)
    \/ Tick

Spec == Init /\ [][Next]_vars

\* the same vault deployed with two configured strategies and one funded user
InitTwoStrategies == Construct(Callers, 2, SCALAR_7 \div 2, SCALAR_7 \div 2,
                               [p \in Principals |-> IF p = "u1" THEN 2 ELSE 0])
SpecTwoStrategies == InitTwoStrategies /\ [][Next]_vars

\* the vault constructed with any pair of rates, valid or not, two configured
\* strategies and one funded user
\* (a pair the constructor refuses gives no initial state)
RateInputs == {-1, 0, SCALAR_7 \div 2, SCALAR_7, SCALAR_7 + 1}
InitAnyRates ==
    \E penalty \in RateInputs, min_liquidity \in RateInputs :
        Construct(Callers, 2, penalty, min_liquidity,
                  [p \in Principals |-> IF p = "u1" THEN 2 ELSE 0])
\* without a liquidity reserve borrow and transfer_from can be repeated for
\* ever, each round adding to total_tokens: explored while it is within MaxPool
NextAnyRates ==
    \/ \E t \in Amounts, r \in Users, a \in BOOLEAN : Deposit(t, r, a)
    \/ \E n \in Amounts, r \in Users, a \in BOOLEAN : Mint(n, r, a)
    \/ \E n \in Amounts, o \in Users, a \in BOOLEAN : RequestRedeem(n, o, a)
    \/ \E n \in Amounts, r \in Users, o \in Users, a \in BOOLEAN : Redeem(n, r, o, a)
    \/ \E o \in Users, a \in BOOLEAN : EmergencyRedeem(o, a)
    \/ \E o \in Users, a \in BOOLEAN : CancelRedeem(o, a)
    \/ \E s \in Callers, n \in Amounts, a \in BOOLEAN : Borrow(s, n, a)
    \/ \E s \in Callers, n \in Amounts, a \in BOOLEAN : Repay(s, n, a)
    \/ \E s \in Callers, n \in Amounts, a \in BOOLEAN : TransferTo(s, n, a)
    \/ \E s \in Callers, n \in Amounts, a \in BOOLEAN :
          /\ total_tokens + n <= MaxPool
          /\ TransferFrom(s, n, a)
    \/ Tick
SpecAnyRates == InitAnyRates /\ [][NextAnyRates]_vars

\* ------------------------------------------------ the open asset token
\* The asset is an ordinary token: a holder can send it to the vault's address
\* with the token's own transfer, without calling the vault.
TokenTransferToVault(from, amount, auth) ==
    IF ~auth \/ amount <= 0 \/ ~CanTransfer(token_bal, from, amount) THEN Rollback
    ELSE /\ token_bal' = Transfer(token_bal, from, VaultAddr, amount)
         /\ last' = Call("token_transfer", from, VaultAddr, amount, 0)
         /\ UNCHANGED <<total_shares, total_tokens, requests, strategy_data, share_bal,
                        config, last_deposit_time, now>>

\* The exploration keeps the accounting within MaxPool of zero.
OpenBounded ==
    /\ total_tokens \in -MaxPool .. MaxPool
    /\ \A s \in strategies :
          /\ strategy_data[s].borrowed <= MaxPool
          /\ strategy_data[s].net_impact \in -MaxPool .. MaxPool

InitOpenToken == Construct(ConfiguredStrategies, 2, SCALAR_7 \div 2, SCALAR_7 \div 2,
                           [p \in Principals |-> IF p = "u1" THEN 2 ELSE 0])

NextOpenToken ==
    \/ \E t \in Amounts, r \in Users, a \in BOOLEAN : Deposit(t, r, a) /\ OpenBounded'
    \/ \E n \in Amounts, r \in Users, a \in BOOLEAN : Mint(n, r, a) /\ OpenBounded'
    \/ \E n \in Amounts, o \in Users, a \in BOOLEAN : RequestRedeem(n, o, a)
    \/ \E n \in Amounts, r \in Users, o \in Users, a \in BOOLEAN :
          Redeem(n, r, o, a) /\ OpenBounded'
    \/ \E o \in Users, a \in BOOLEAN : EmergencyRedeem(o, a) /\ OpenBounded'
    \/ \E o \in Users, a \in BOOLEAN : CancelRedeem(o, a)
    \/ \E s \in Callers, n \in Amounts, a \in BOOLEAN : Borrow(s, n, a) /\ OpenBounded'
    \/ \E s \in Callers, n \in Amounts, a \in BOOLEAN : Repay(s, n, a)
    \/ \E s \in Callers, n \in Amounts, a \in BOOLEAN : TransferTo(s, n, a) /\ OpenBounded'
    \/ \E s \in Callers, n \in Amounts, a \in BOOLEAN : TransferFrom(s, n, a) /\ OpenBounded'
    \/ \E u \in Users, n \in Amounts, a \in BOOLEAN : TokenTransferToVault(u, n, a)
    \/ Tick

SpecOpenToken == InitOpenToken /\ [][NextOpenToken]_vars

\* ------------------------------------------------ a wider share supply
\* Both users hold two tokens and the share supply runs one past MaxShares, so
\* that a mint as well as a deposit or a redeem meets a price that does not
\* divide evenly.
InitPrice == Construct(ConfiguredStrategies, 1, SCALAR_7 \div 2, SCALAR_7 \div 2,
                       [p \in Principals |-> IF p \in Users THEN 2 ELSE 0])

PriceOwners == {"u1"}    \* the redemption calls explored are this user's own

NextPrice ==
    \/ \E t \in Amounts, r \in Users, a \in BOOLEAN :
          /\ DepositOutcome(t, r, a) = "ok" => total_shares + DepositShares(t) <= MaxShares + 1
          /\ DepositCall(t, r, a)
    \/ \E n \in Amounts, r \in Users, a \in BOOLEAN :
          /\ MintOutcome(n, r, a) = "ok" => total_shares + n <= MaxShares + 1
          /\ MintCall(n, r, a)
    \/ \E n \in Amounts, o \in PriceOwners, a \in BOOLEAN : RequestRedeem(n, o, a)
    \/ \E n \in Amounts, o \in PriceOwners, a \in BOOLEAN : Redeem(n, o, o, a)
    \/ \E o \in PriceOwners, a \in BOOLEAN : EmergencyRedeem(o, a)
    \/ \E o \in PriceOwners, a \in BOOLEAN : CancelRedeem(o, a)
    \/ \E s \in ConfiguredStrategies, n \in Amounts, a \in BOOLEAN : Borrow(s, n, a)
    \/ \E s \in ConfiguredStrategies, n \in Amounts, a \in BOOLEAN : Repay(s, n, a)
    \/ \E s \in ConfiguredStrategies, n \in Amounts, a \in BOOLEAN : TransferTo(s, n, a)
    \/ \E s \in ConfiguredStrategies, n \in Amounts, a \in BOOLEAN :
          /\ total_tokens + n <= MaxPool
          /\ TransferFrom(s, n, a)
    \/ Tick

SpecPrice == InitPrice /\ [][NextPrice]_vars

\* ------------------------------------------------ the vault without settlement
\* The user operations with borrow and repay only: no strategy reports a
\* profit or a loss, and an emergency redemption is made only where its
\* penalty is zero.
NextNoSettlement ==
    \/ \E t \in Amounts, r \in Users, a \in BOOLEAN : Deposit(t, r, a)
    \/ \E n \in Amounts, r \in Users, a \in BOOLEAN : Mint(n, r, a)
    \/ \E n \in Amounts, o \in Users, a \in BOOLEAN : RequestRedeem(n, o, a)
    \/ \E n \in Amounts, r \in Users, o \in Users, a \in BOOLEAN : Redeem(n, r, o, a)
    \/ \E o \in Users, a \in BOOLEAN :
          /\ EmergencyRedeemOutcome(o, a) = "ok" => EmergencyPenalty(o) = 0
          /\ EmergencyRedeem(o, a)
    \/ \E o \in Users, a \in BOOLEAN : CancelRedeem(o, a)
    \/ \E s \in Callers, n \in Amounts, a \in BOOLEAN : Borrow(s, n, a)
    \/ \E s \in Callers, n \in Amounts, a \in BOOLEAN : Repay(s, n, a)
    \/ Tick

SpecNoSettlement == Init /\ [][NextNoSettlement]_vars

\* ------------------------------------------------ the vault with no lock time
\* the constructor stores lock_time as given; 0 is accepted (one funded user)
InitZeroLock == Construct(ConfiguredStrategies, 0, SCALAR_7 \div 2, SCALAR_7 \div 2,
                          [p \in Principals |-> IF p = "u1" THEN 2 ELSE 0])
SpecZeroLock == InitZeroLock /\ [][Next]_vars

\* ------------------------------------------------ a pool that lost its tokens
\* Deposits of up to five tokens, the strategy's loss and profit reports and
\* one user's redemptions: the share supply runs to MaxShares + 3 so that a
\* deposit can meet several outstanding shares backed by no tokens.
InitDilution == Construct(ConfiguredStrategies, 1, SCALAR_7 \div 2, SCALAR_7 \div 2,
                          [p \in Principals |->
                              IF p = "u1" THEN 3 ELSE IF p = "u2" THEN 2 ELSE 0])

NextDilution ==
    \/ \E t \in Amounts, r \in Users, a \in BOOLEAN :
          /\ DepositOutcome(t, r, a) = "ok" => total_shares + DepositShares(t) <= MaxShares + 3
          /\ DepositCall(t, r, a)
    \/ \E n \in Amounts, o \in PriceOwners, a \in BOOLEAN : RequestRedeem(n, o, a)
    \/ \E n \in Amounts, o \in PriceOwners, a \in BOOLEAN : Redeem(n, o, o, a)
    \/ \E s \in ConfiguredStrategies, n \in Amounts, a \in BOOLEAN : TransferTo(s, n, a)
    \/ \E s \in ConfiguredStrategies, n \in Amounts, a \in BOOLEAN :
          /\ total_tokens + n <= MaxPool
          /\ TransferFrom(s, n, a)
    \/ Tick

SpecDilution == InitDilution /\ [][NextDilution]_vars

\* ------------------------------------------------ the integration scenarios
\* test_multi_user_multi_strategy_scenario (deposits of 10,000, 5,000 and
\* 8,640, a loan of 6,000, profit of 1,200) and
\* test_vault_recovery_after_strategy_default (deposits of 10,000 and 6,000, a
\* loan of 4,000 that is not repaid): the default configuration (lock 300,
\* penalty 10%, minimum liquidity 20%), two strategies, and the calls of the
\* tests in any order.  Every amount of the tests is a multiple of 40 tokens
\* and amounts are counted here in lots of 40 tokens, which keeps
\* amount * rate within the checker's integers; the deposits made by a second
\* or third user in the tests are made by u2.
ScenarioUnit == 40
Lots(tokens) == tokens \div ScenarioUnit
ScenarioDeposits ==
    {<<Lots(10000), "u1">>, <<Lots(5000), "u2">>, <<Lots(8640), "u2">>,
     <<Lots(6000), "u2">>}
ScenarioLoans == {Lots(6000), Lots(4000)}
ScenarioFunds ==
    [p \in Principals |->
        IF p = "u1" THEN Lots(10000)
        ELSE IF p = "u2" THEN Lots(5000) + Lots(8640)
        ELSE IF p = "s1" THEN Lots(7200)
        ELSE 0]
InitScenario ==
    Construct(Callers, 300, SCALAR_7 \div 10, SCALAR_7 \div 5, ScenarioFunds)
\* the strategy hands over profit once its debt is repaid
NextScenario ==
    \/ \E d \in ScenarioDeposits, a \in BOOLEAN : DepositCall(d[1], d[2], a)
    \/ \E n \in ScenarioLoans, a \in BOOLEAN : Borrow("s1", n, a)
    \/ \E n \in ScenarioLoans, a \in BOOLEAN : Repay("s1", n, a)
    \/ \E a \in BOOLEAN :
          /\ strategy_data["s1"].borrowed = 0
          /\ TransferFrom("s1", Lots(1200), a)
SpecScenario == InitScenario /\ [][NextScenario]_vars

\* ------------------------------------------------ the share-transfer gate
\* The lock-gated variants: every deposit or mint stamps the receiver's
\* LastDepositTime, and the share token's transfer paths check the lock before
\* they delegate to the base token.  The vault of these variants redeems
\* directly from the owner's balance (there is no request queue).
GatePolicies == {"transfer_lock", "deposit_lock"}
GateLockTimes == {1, 2}

\* mutant: a missing record reads as time 0
get_last_deposit_timeDefaulted(user) ==
    IF user \in DOMAIN last_deposit_time THEN {last_deposit_time[user]} ELSE {0}

\* Option<u64>: the set of at most one recorded time
get_last_deposit_time(user) ==
    IF user \in DOMAIN last_deposit_time THEN {last_deposit_time[user]} ELSE {}

\* mutant: a record, once written, is kept
set_last_deposit_timeOnce(user, timestamp) ==
    [u \in DOMAIN last_deposit_time \cup {user} |->
        IF u \in DOMAIN last_deposit_time THEN last_deposit_time[u] ELSE timestamp]

set_last_deposit_time(user, timestamp) ==
    [u \in DOMAIN last_deposit_time \cup {user} |->
        IF u = user THEN timestamp ELSE last_deposit_time[u]]

\* without a record the deposit lock reports locked, the transfer lock unlocked
is_locked(user) ==
    LET recorded == get_last_deposit_time(user)
    IN  IF recorded = {} THEN gate_policy = "deposit_lock"
        ELSE \E t \in recorded : now < t + lock_time

GateDeposit(tokens, receiver, auth) ==
    /\ DepositOutcome(tokens, receiver, auth) = "ok"
          => total_shares + DepositShares(tokens) <= MaxShares
    /\ IF DepositOutcome(tokens, receiver, auth) # "ok" THEN Rollback
       ELSE LET shares == DepositShares(tokens)
            IN  /\ token_bal' = Transfer(token_bal, receiver, VaultAddr, tokens)
                /\ share_bal' = MintTo(share_bal, receiver, shares)
                /\ total_shares' = total_shares + shares
                /\ total_tokens' = total_tokens + tokens
                /\ last_deposit_time' = set_last_deposit_time(receiver, now)
                /\ last' = Call("deposit", receiver, receiver, tokens, shares)
                /\ UNCHANGED <<requests, strategy_data, config, now>>

GateMint(shares, receiver, auth) ==
    /\ MintOutcome(shares, receiver, auth) = "ok" => total_shares + shares <= MaxShares
    /\ IF MintOutcome(shares, receiver, auth) # "ok" THEN Rollback
       ELSE LET tokens == MintTokens(shares)
            IN  /\ token_bal' = Transfer(token_bal, receiver, VaultAddr, tokens)
                /\ share_bal' = MintTo(share_bal, receiver, shares)
                /\ total_shares' = total_shares + shares
                /\ total_tokens' = total_tokens + tokens
                /\ last_deposit_time' = set_last_deposit_time(receiver, now)
                /\ last' = Call("mint", receiver, receiver, shares, tokens)
                /\ UNCHANGED <<requests, strategy_data, config, now>>

\* transfer and transfer_from of the share token: the lock check, then the
\* base token's transfer (authorization or allowance, then the balance)
ShareTransferOutcome(from, amount, allowed) ==
    IF is_locked(from) THEN "SharesLocked"
    ELSE IF ~allowed THEN "Unauthorized"
    ELSE IF ~CanTransfer(share_bal, from, amount) THEN "TokenError"
    ELSE "ok"

ShareTransfer(from, to, amount, auth) ==
    IF ShareTransferOutcome(from, amount, auth) # "ok" THEN Rollback
    ELSE /\ share_bal' = Transfer(share_bal, from, to, amount)
         /\ last' = Call("share_transfer", from, to, amount, 0)
         /\ UNCHANGED <<total_shares, total_tokens, requests, strategy_data, token_bal,
                        config, last_deposit_time, now>>

ShareTransferFrom(from, to, amount, allowance) ==
    IF ShareTransferOutcome(from, amount, allowance) # "ok" THEN Rollback
    ELSE /\ share_bal' = Transfer(share_bal, from, to, amount)
         /\ last' = Call("share_transfer_from", from, to, amount, 0)
         /\ UNCHANGED <<total_shares, total_tokens, requests, strategy_data, token_bal,
                        config, last_deposit_time, now>>

\* redemption is behind the gate in the deposit-lock variant only
GateRedeemOutcome(shares, owner, auth) ==
    IF gate_policy = "deposit_lock" /\ is_locked(owner) THEN "SharesLocked"
    ELSE IF ~auth THEN "Unauthorized"
    ELSE IF shares <= 0 THEN "ZeroAmount"
    ELSE IF ~CanTransfer(share_bal, owner, shares) THEN "TokenError"
    ELSE IF ~CanTransfer(token_bal, VaultAddr, RedeemTokens(shares)) THEN "TokenError"
    ELSE "ok"

GateRedeem(shares, owner, auth) ==
    IF GateRedeemOutcome(shares, owner, auth) # "ok" THEN Rollback
    ELSE LET tokens == RedeemTokens(shares)
         IN  /\ share_bal' = Burn(share_bal, owner, shares)
             /\ token_bal' = Transfer(token_bal, VaultAddr, owner, tokens)
             /\ total_shares' = total_shares - shares
             /\ total_tokens' = total_tokens - tokens
             /\ last' = Call("gate_redeem", owner, owner, shares, tokens)
             /\ UNCHANGED <<requests, strategy_data, config, last_deposit_time, now>>

InitGate ==
    /\ gate_policy \in GatePolicies
    /\ lock_time \in GateLockTimes
    /\ last_deposit_time = NoDepositTimes
    /\ strategies = {}
    /\ strategy_data = [s \in {} |-> [borrowed |-> 0, net_impact |-> 0]]
    /\ penalty_rate = 0
    /\ min_liquidity_rate = 0
    /\ total_shares = 0
    /\ total_tokens = 0
    /\ requests = [u \in Users |-> NoRequest]
    /\ token_bal = [p \in Principals |-> InitialTokens(p)]
    /\ share_bal = [p \in Users \cup {VaultAddr} |-> 0]
    /\ now = 0
    /\ last = Call("init", VaultAddr, VaultAddr, 0, 0)

NextGate ==
    \/ \E t \in Amounts, r \in Users, a \in BOOLEAN : GateDeposit(t, r, a)
    \/ \E n \in Amounts, r \in Users, a \in BOOLEAN : GateMint(n, r, a)
    \/ \E f \in Users, t \in Users, n \in Amounts, a \in BOOLEAN : ShareTransfer(f, t, n, a)
    \/ \E f \in Users, t \in Users, n \in Amounts, a \in BOOLEAN :
          ShareTransferFrom(f, t, n, a)
    \/ \E n \in Amounts, o \in Users, a \in BOOLEAN : GateRedeem(n, o, a)
    \/ Tick

SpecGate == InitGate /\ [][NextGate]_vars

\* ------------------------------------------------- the functions of math.rs
\* The conversion and policy functions applied to totals, rates and times
\* drawn from bounded sets: total_shares and total_tokens are the Converter's
\* fields, lock_time / penalty_rate / min_liquidity_rate the configuration and
\* now the ledger time the penalty reads.
MathConfigs ==
    { <<300, SCALAR_7 \div 10, SCALAR_7 \div 5>>,
      <<2, SCALAR_7 \div 2, SCALAR_7 \div 2>>,
      <<1, SCALAR_7, SCALAR_7>>,
      <<2, 0, 0>> }
MathTimes == {0, 1, 2, 150, 300, 301}
PenaltyValues == {0, 1, 3, 20, 200}

InitMath ==
    /\ total_shares \in 0 .. MaxPool
    /\ total_tokens \in 0 .. MaxPool
    /\ \E c \in MathConfigs :
           /\ lock_time = c[1]
           /\ penalty_rate = c[2]
           /\ min_liquidity_rate = c[3]
    /\ now = 0
    /\ strategies = {}
    /\ requests = [u \in Users |-> NoRequest]
    /\ strategy_data = [s \in {} |-> [borrowed |-> 0, net_impact |-> 0]]
    /\ token_bal = [p \in Principals |-> 0]
    /\ share_bal = [p \in Users \cup {VaultAddr} |-> 0]
    /\ gate_policy = "none"
    /\ last_deposit_time = NoDepositTimes
    /\ last = Call("init", VaultAddr, VaultAddr, 0, 0)

Applied(fn, arg, result) ==
    /\ last' = Call(fn, VaultAddr, VaultAddr, arg, result)
    /\ UNCHANGED <<ledger, config, last_deposit_time, now>>

ApplySharesFromTokens(tokens) ==
    Applied("shares_from_tokens", tokens, shares_from_tokens(total_shares, total_tokens, tokens))

ApplyTokensFromShares(shares) ==
    Applied("tokens_from_shares", shares, tokens_from_shares(total_shares, total_tokens, shares))

ApplyRedemptionValue(shares) ==
    Applied("redemption_value", shares, redemption_value(total_shares, total_tokens, shares))

\* the penalty of a request filed at time 0
ApplyCalculatePenalty(token_value) ==
    Applied("calculate_penalty", token_value,
            calculate_penalty(token_value, lock_time, lock_time, penalty_rate, now))

ApplyCalculateMinLiquidity ==
    Applied("calculate_min_liquidity", total_tokens,
            calculate_min_liquidity(total_tokens, min_liquidity_rate))

MathTick ==
    /\ \E t \in MathTimes : t > now /\ now' = t
    /\ last' = Call("tick", VaultAddr, VaultAddr, 0, 0)
    /\ UNCHANGED <<ledger, config, last_deposit_time>>

NextMath ==
    \/ \E x \in 1 .. MaxPool : ApplySharesFromTokens(x)
    \/ \E x \in 1 .. MaxPool : ApplyTokensFromShares(x)
    \/ \E x \in 1 .. MaxPool : ApplyRedemptionValue(x)
    \/ \E v \in PenaltyValues : ApplyCalculatePenalty(v)
    \/ ApplyCalculateMinLiquidity
    \/ MathTick

SpecMath == InitMath /\ [][NextMath]_vars

\* ======================================================================
\* Properties
\* ======================================================================
LiveOwners == {u \in Users : has_redemption_request(u)}
EscrowedShares == requests["u1"].shares + requests["u2"].shares
\* ceil(x / d) for x >= 0, d > 0, written independently of FixedMulCeil
CeilOf(x, d) == (x + d - 1) \div d
AvailableLiquidity ==
    token_bal[VaultAddr] - CeilOf(total_tokens * min_liquidity_rate, SCALAR_7)
\* a step of entry point op that succeeded
Did(op) == last'.op = op /\ now' = now

\* C1: escrow custody -- in every reachable state the share balance held by
\* the vault equals the sum of shares over all live redemption requests.
\* The code breaks it: a partial redeem keeps a request for the un-redeemed
\* shares and also sends those shares back to the owner.
C1_EscrowCustody == share_bal[VaultAddr] = EscrowedShares

\* C2: liquidity guard on borrow -- for a configured strategy that authorized
\* the call and an amount > 0, borrow succeeds if and only if
\* amount <= vault_balance - ceil(total_tokens * min_liquidity_rate / SCALE),
\* the boundary included; otherwise it fails with InsufficientVaultBalance, and
\* a failing borrow changes nothing.
C2_Guard ==
    \A s \in strategies, n \in 1 .. MaxAmount + 1 :
        /\ n <= AvailableLiquidity => BorrowOutcome(s, n, TRUE) = "ok"
        /\ n > AvailableLiquidity => BorrowOutcome(s, n, TRUE) = "InsufficientVaultBalance"
\* a borrow outside the guard is rolled back: every borrow that changes the
\* state was within the guard
C2_OnlyGuardedBorrowActs ==
    Did("borrow") => (last'.amt > 0 /\ last'.amt <= AvailableLiquidity)
C2_LiquidityGuardOnBorrow == []C2_Guard /\ [][C2_OnlyGuardedBorrowActs]_vars
\* a borrow of the whole available liquidity has succeeded; one more token is refused
C2_Witness ==
    /\ last.op = "borrow"
    /\ AvailableLiquidity = 0
    /\ BorrowOutcome(last.who, 1, TRUE) = "InsufficientVaultBalance"

\* C3 as stated: in every reachable state the vault's on-hand asset balance
\* is at least ceil(total_tokens * min_liquidity_rate / SCALE).
C3_MinLiquidityAlways == AvailableLiquidity >= 0
\* C3 as amended: the reserve is enforced by borrow alone -- right after every
\* successful borrow the on-hand balance is at least
\* ceil(total_tokens * min_liquidity_rate / SCALE); redeem, emergency_redeem
\* and transfer_to have no such guard.
C3_MinLiquidityAfterBorrow == [][Did("borrow") => AvailableLiquidity' >= 0]_vars
\* a borrow has succeeded in a vault that has a reserve to keep
C3_Witness ==
    /\ last.op = "borrow"
    /\ CeilOf(total_tokens * min_liquidity_rate, SCALAR_7) > 0
    /\ AvailableLiquidity >= 0
\* C4: strategy isolation -- a successful borrow / repay changes that
\* strategy's borrowed by exactly +amount / -amount and leaves total_tokens,
\* total_shares and its net_impact unchanged; a successful transfer_to /
\* transfer_from changes total_tokens and that strategy's net_impact by
\* exactly -amount / +amount and leaves borrowed unchanged; the data of every
\* other strategy and every redemption request are unchanged.  Hence each
\* strategy holds exactly what the books say it took: borrowed - net_impact.
C4_Frame ==
    LET s == last'.who
        n == last'.amt
    IN  /\ Did("borrow") =>
            /\ strategy_data' = [strategy_data EXCEPT ![s].borrowed = @ + n]
            /\ total_tokens' = total_tokens
        /\ Did("repay") =>
            /\ strategy_data' = [strategy_data EXCEPT ![s].borrowed = @ - n]
            /\ total_tokens' = total_tokens
        /\ Did("transfer_to") =>
            /\ strategy_data' = [strategy_data EXCEPT ![s].net_impact = @ - n]
            /\ total_tokens' = total_tokens - n
        /\ Did("transfer_from") =>
            /\ strategy_data' = [strategy_data EXCEPT ![s].net_impact = @ + n]
            /\ total_tokens' = total_tokens + n
        /\ (Did("borrow") \/ Did("repay") \/ Did("transfer_to") \/ Did("transfer_from")) =>
            /\ n > 0
            /\ total_shares' = total_shares
            /\ requests' = requests
C4_Flows ==
    \A s \in strategies :
        token_bal[s] = InitialTokens(s) + strategy_data[s].borrowed
                                        - strategy_data[s].net_impact
C5_Supply == total_shares = share_bal["u1"] + share_bal["u2"] + share_bal[VaultAddr]
C5_EscrowKeepsTotals ==
    (Did("request_redeem") \/ Did("cancel_redeem")) =>
        /\ total_shares' = total_shares
        /\ total_tokens' = total_tokens
        /\ share_bal'[VaultAddr] # share_bal[VaultAddr]
C5_ShareSupply == []C5_Supply /\ [][C5_EscrowKeepsTotals]_vars
\* shares are escrowed while both users still hold spendable shares or custody
C5_Witness ==
    /\ last.op \in {"request_redeem", "cancel_redeem", "redeem"}
    /\ share_bal[VaultAddr] > 0
    /\ total_shares > share_bal[VaultAddr]

\* C6: emergency redemption accounting -- with a live request,
\* value = floor(request.shares * total_tokens / total_shares),
\* payout = value - penalty; if payout <= 0 the call fails with InvalidAmount
\* and nothing changes; otherwise it burns request.shares, pays payout to the
\* owner, decreases total_shares by request.shares and total_tokens by exactly
\* payout (the penalty stays in total_tokens), and deletes the request.
PenaltyOf(value, unlock) ==
    IF now >= unlock THEN 0
    ELSE (value * ((penalty_rate * (unlock - now)) \div lock_time)) \div SCALAR_7
C6_Refusal ==
    \A o \in LiveOwners :
        LET value == (requests[o].shares * total_tokens) \div total_shares
        IN  (total_shares > 0 /\ value - PenaltyOf(value, requests[o].unlock_time) <= 0)
                => EmergencyRedeemOutcome(o, TRUE) = "InvalidAmount"
C6_Effect ==
    Did("emergency_redeem") =>
        LET o == last'.who
            value == (requests[o].shares * total_tokens) \div total_shares
            payout == value - PenaltyOf(value, requests[o].unlock_time)
        IN  /\ has_redemption_request(o)
            /\ payout > 0
            /\ last'.ret = payout
            /\ share_bal' = [share_bal EXCEPT ![VaultAddr] = @ - requests[o].shares]
            /\ token_bal' = [token_bal EXCEPT ![VaultAddr] = @ - payout, ![o] = @ + payout]
            /\ total_shares' = total_shares - requests[o].shares
            /\ total_tokens' = total_tokens - payout
            /\ requests' = [requests EXCEPT ![o] = NoRequest]
            /\ strategy_data' = strategy_data
C6_EmergencyAccounting == []C6_Refusal /\ [][C6_Effect]_vars
\* an emergency redemption has paid less than the value of its shares: the
\* penalty is still counted in total_tokens
C6_Witness ==
    /\ last.op = "emergency_redeem"
    /\ last.ret > 0
    /\ total_shares = 0
    /\ total_tokens > 0
\* a live request whose payout is not positive is refused
C6_WitnessRefused ==
    \E o \in LiveOwners :
        total_shares > 0 /\ EmergencyRedeemOutcome(o, TRUE) = "InvalidAmount"

\* C7: redeem pays the execution-time price -- a successful redeem of k shares
\* pays floor(k * total_tokens / total_shares) on the totals at the time redeem
\* executes, so profit or loss settled since request_redeem is in the payout;
\* it burns k shares, decreases total_shares by k and total_tokens by the
\* payout, and deletes the request when k is the requested amount.
C7_Effect ==
    Did("redeem") =>
        LET o == last'.who
            k == last'.amt
            payout == (k * total_tokens) \div total_shares
        IN  /\ has_redemption_request(o)
            /\ last'.ret = payout
            /\ token_bal' = [[token_bal EXCEPT ![VaultAddr] = @ - payout]
                                        EXCEPT ![last'.rcv] = @ + payout]
            /\ total_shares' = total_shares - k
            /\ total_tokens' = total_tokens - payout
            /\ share_bal["u1"] + share_bal["u2"] + share_bal[VaultAddr]
                 = share_bal'["u1"] + share_bal'["u2"] + share_bal'[VaultAddr] + k
            /\ (k = requests[o].shares) => requests' = [requests EXCEPT ![o] = NoRequest]
            /\ strategy_data' = strategy_data
C7_RedeemExecutionPrice == [][C7_Effect]_vars
\* a full redeem has paid a price that differs from one token per share: a
\* strategy settled profit or loss after the shares were minted
C7_Witness ==
    /\ last.op = "redeem"
    /\ last.amt > 0
    /\ last.ret # last.amt
    /\ ~has_redemption_request(last.who)
    /\ \E s \in strategies : strategy_data[s].net_impact # 0

\* C8: time lock on redeem -- a request created at time t0 has
\* unlock_time = t0 + lock_time, and the unlock_time does not change while the
\* request is live (partial redemption included); redeem fails with
\* WithdrawalLocked and changes nothing whenever now < unlock_time, and the
\* lock lets it through at now = unlock_time and at any later time.
C8_Lock ==
    \A o \in LiveOwners, k \in Amounts, r \in Users :
        /\ now < requests[o].unlock_time => RedeemOutcome(k, r, o, TRUE) = "WithdrawalLocked"
        /\ now >= requests[o].unlock_time => RedeemOutcome(k, r, o, TRUE) # "WithdrawalLocked"
        /\ (now >= requests[o].unlock_time /\ k = requests[o].shares
                /\ share_bal[VaultAddr] >= k /\ token_bal[VaultAddr] >= total_tokens)
             => RedeemOutcome(k, r, o, TRUE) = "ok"
C8_UnlockTime ==
    /\ Did("request_redeem") => requests'[last'.who].unlock_time = now + lock_time
    /\ Did("redeem") => now >= requests[last'.who].unlock_time
    /\ \A o \in LiveOwners :
            requests'[o] # NoRequest => requests'[o].unlock_time = requests[o].unlock_time
C9_Gate ==
    \A o \in Users :
        /\ has_redemption_request(o) =>
               \A n \in 1 .. MaxAmount : RequestRedeemOutcome(n, o, TRUE) = "WithdrawalInProgress"
        /\ ~has_redemption_request(o) =>
               /\ \A n \in 1 .. MaxAmount :
                      n <= share_bal[o] => RequestRedeemOutcome(n, o, TRUE) = "ok"
               /\ \A k \in Amounts, r \in Users : RedeemOutcome(k, r, o, TRUE) = "NotFound"
               /\ EmergencyRedeemOutcome(o, TRUE) = "NotFound"
               /\ CancelRedeemOutcome(o, TRUE) = "NotFound"
C9_Lifecycle ==
    \A o \in Users :
        /\ (~has_redemption_request(o) /\ requests'[o] # NoRequest) =>
               /\ Did("request_redeem") /\ last'.who = o
               /\ requests'[o].shares = last'.amt /\ last'.amt > 0
        /\ (has_redemption_request(o) /\ requests'[o] = NoRequest) =>
               /\ last'.who = o
               /\ \/ Did("redeem") /\ last'.amt = requests[o].shares
                  \/ Did("emergency_redeem")
                  \/ Did("cancel_redeem")
        /\ (has_redemption_request(o) /\ requests'[o] # NoRequest /\ requests'[o] # requests[o]) =>
               /\ Did("redeem") /\ last'.who = o
               /\ requests'[o].shares = requests[o].shares - last'.amt
        /\ (last'.who = o /\ (Did("redeem") \/ Did("emergency_redeem") \/ Did("cancel_redeem")))
               => has_redemption_request(o)
        /\ (last'.who = o /\ Did("request_redeem")) => ~has_redemption_request(o)
C10_RequestEscrows ==
    Did("request_redeem") =>
        LET o == last'.who
            n == last'.amt
        IN  /\ share_bal' = [share_bal EXCEPT ![o] = @ - n, ![VaultAddr] = @ + n]
            /\ requests'[o].shares = n
            /\ total_shares' = total_shares /\ total_tokens' = total_tokens
C10_OthersKeepEscrow ==
    \A o \in LiveOwners :
        (last'.who # o /\ share_bal[VaultAddr] >= requests[o].shares) =>
            /\ requests'[o] = requests[o]
            /\ share_bal'[o] = share_bal[o]
            /\ share_bal'[VaultAddr] >= requests[o].shares
            /\ CancelRedeemOutcome(o, TRUE)' = "ok"
C10_CancelReturns ==
    Did("cancel_redeem") =>
        LET o == last'.who
            n == requests[o].shares
        IN  /\ n > 0
            /\ share_bal' = [share_bal EXCEPT ![o] = @ + n, ![VaultAddr] = @ - n]
            /\ requests' = [requests EXCEPT ![o] = NoRequest]
            /\ total_shares' = total_shares /\ total_tokens' = total_tokens
C10_CancelRoundTrip ==
    [][C10_RequestEscrows /\ C10_OthersKeepEscrow /\ C10_CancelReturns]_vars

\* C11 as stated: depositing t tokens, then requesting redemption of all the
\* shares just minted and redeeming them after unlock, with no strategy
\* operation in between, returns exactly t tokens.  request_redeem and the
\* clock leave the totals alone, so the redeem pays the redemption value the
\* minted shares have right after the deposit.
C11_CycleReturnsDeposit ==
    last.op = "deposit" => RedeemTokens(last.ret) = last.amt
\* C11 as amended: right after a deposit of t the minted shares redeem for
\* exactly t when the vault was empty or priced one token per share
\* (total_shares = total_tokens before the deposit), and for at most t
\* whenever the vault held both shares and tokens; request_redeem and the
\* passing of time do not change that value.
C11_DepositValue ==
    last.op = "deposit" =>
        LET shares_before == total_shares - last.ret
            tokens_before == total_tokens - last.amt
        IN  /\ total_shares > 0
            /\ shares_before = tokens_before => RedeemTokens(last.ret) = last.amt
            /\ (shares_before > 0 /\ tokens_before > 0) => RedeemTokens(last.ret) <= last.amt
C11_PriceKept ==
    (Did("request_redeem") \/ now' # now) =>
        (total_shares' = total_shares /\ total_tokens' = total_tokens)
C11_CycleConservation == []C11_DepositValue /\ [][C11_PriceKept]_vars
\* a deposit into a vault another user already holds shares of, at one token
\* per share, mints shares worth exactly the deposit
C11_Witness ==
    /\ last.op = "deposit"
    /\ last.ret > 0
    /\ total_shares > last.ret
    /\ total_shares = total_tokens
    /\ RedeemTokens(last.ret) = last.amt

\* C12: vault-favourable rounding -- for all non-negative total_shares and
\* total_tokens and every share amount x > 0, the mint cost
\* tokens_from_shares(x) (ceiling) is at least the redemption payout
\* redemption_value(x) (floor), the bootstrap cases total_shares = 0 and
\* total_tokens = 0 included.
C12_MintCostCoversPayout ==
    \A x \in 1 .. MaxPool + 1 :
        tokens_from_shares(total_shares, total_tokens, x)
            >= redemption_value(total_shares, total_tokens, x)
\* the mint cost of the shares just priced is strictly above their payout
C12_Witness ==
    /\ last.op = "tokens_from_shares"
    /\ total_shares > 0 /\ total_tokens > 0
    /\ last.ret > redemption_value(total_shares, total_tokens, last.amt)

\* C13: bootstrap 1:1 -- whenever total_shares = 0, deposit(t) mints exactly t
\* shares and mint(s) costs exactly s tokens, for all positive t and s; the
\* first deposit into a fresh vault leaves total_shares = total_tokens = t.
C13_BootstrapPrice ==
    total_shares = 0 =>
        \A x \in 1 .. MaxAmount + 1 :
            /\ DepositShares(x) = x
            /\ MintTokens(x) = x
            /\ shares_from_tokens(total_shares, total_tokens, x) = x
            /\ tokens_from_shares(total_shares, total_tokens, x) = x
C13_BootstrapStep ==
    /\ (total_shares = 0 /\ (Did("deposit") \/ Did("mint"))) =>
           /\ last'.ret = last'.amt
           /\ total_shares' = last'.amt
           /\ total_tokens' = total_tokens + last'.amt
           /\ share_bal'[last'.who] = share_bal[last'.who] + last'.amt
           /\ token_bal'[last'.who] = token_bal[last'.who] - last'.amt
    /\ (last.op = "init" /\ Did("deposit")) =>
           (total_shares' = last'.amt /\ total_tokens' = last'.amt)
C13_Bootstrap == []C13_BootstrapPrice /\ [][C13_BootstrapStep]_vars
\* a deposit into a vault with no shares but tokens left over from a penalty
\* has minted one share per token
C13_Witness ==
    /\ last.op = "deposit"
    /\ last.ret = last.amt
    /\ total_shares = last.amt
    /\ total_tokens > total_shares

\* C14: penalty decay -- for a fixed token_value, lock_time > 0 and
\* penalty_rate in [0, SCALE], calculate_penalty is non-increasing as now
\* advances, equals floor(token_value * penalty_rate / SCALE) at request time
\* (now = unlock_time - lock_time) and is 0 for every now >= unlock_time.  With
\* lock_time = 300 and penalty_rate = 10% the payout value - penalty is 90% of
\* the value at t0, 95% at t0 + 150 and 100% from t0 + 300 on.
RequestTimes == {0, 1}
C14_PenaltyCurve ==
    \A v \in PenaltyValues, t0 \in RequestTimes :
        LET unlock == t0 + lock_time
            P(t) == calculate_penalty(v, unlock, lock_time, penalty_rate, t0 + t)
        IN  /\ P(0) = (v * penalty_rate) \div SCALAR_7
            /\ \A t \in MathTimes : t >= lock_time => P(t) = 0
            /\ \A t1, t2 \in MathTimes : t1 <= t2 => P(t1) >= P(t2)
            /\ \A t \in MathTimes : P(t) >= 0 /\ P(t) <= v
            /\ (lock_time = 300 /\ penalty_rate * 10 = SCALAR_7) =>
                   /\ v % 20 = 0 => ((v - P(0)) * 100 = v * 90 /\ (v - P(150)) * 100 = v * 95)
                   /\ v - P(300) = v /\ v - P(301) = v
C14_PenaltyFalls ==
    now' > now =>
        \A v \in PenaltyValues :
            calculate_penalty(v, lock_time, lock_time, penalty_rate, now')
                <= calculate_penalty(v, lock_time, lock_time, penalty_rate, now)
C14_PenaltyDecay == []C14_PenaltyCurve /\ [][C14_PenaltyFalls]_vars
\* half way through a 300 second lock at 10% the penalty on 200 tokens is 10
C14_Witness ==
    /\ last.op = "calculate_penalty"
    /\ lock_time = 300 /\ penalty_rate * 10 = SCALAR_7
    /\ now = 150
    /\ last.amt = 200
    /\ last.ret = 10

\* C15: debt tracking -- repay with amount > the strategy's borrowed fails
\* with InvalidAmount and changes nothing (rejected, not clamped); so in every
\* reachable state each strategy's borrowed is >= 0, and it changes only by
\* +amount on that strategy's successful borrow and -amount on its
\* successful repay.
C15_Debt ==
    \A s \in strategies :
        /\ strategy_data[s].borrowed >= 0
        /\ \A n \in 1 .. MaxAmount + 2 :
               n > strategy_data[s].borrowed => RepayOutcome(s, n, TRUE) = "InvalidAmount"
C15_DebtSteps ==
    \A s \in strategies :
        /\ (Did("borrow") /\ last'.who = s) =>
               strategy_data'[s].borrowed = strategy_data[s].borrowed + last'.amt
        /\ (Did("repay") /\ last'.who = s) =>
               /\ last'.amt <= strategy_data[s].borrowed
               /\ strategy_data'[s].borrowed = strategy_data[s].borrowed - last'.amt
        /\ strategy_data'[s].borrowed # strategy_data[s].borrowed =>
               (last'.who = s /\ (Did("borrow") \/ Did("repay")))
C15_DebtTracking == []C15_Debt /\ [][C15_DebtSteps]_vars
\* a strategy that owes 1 and holds 2 tokens is refused a repayment of 2
C15_Witness ==
    \E s \in strategies :
        /\ last.op \in {"borrow", "repay"} /\ last.who = s
        /\ strategy_data[s].borrowed = 1
        /\ token_bal[s] >= 2
        /\ RepayOutcome(s, 2, TRUE) = "InvalidAmount"

\* C16: fixed strategy set -- no operation changes the strategy set or the
\* configuration (lock_time, penalty_rate, min_liquidity_rate) after
\* construction; a principal outside the set never succeeds in borrow, repay,
\* transfer_to or transfer_from: the call fails with UnauthorizedStrategy (a
\* non-positive amount is refused one check earlier, with ZeroAmount) and
\* nothing changes.
Outsiders == Callers \ ConfiguredStrategies
StrategyOutcomes(s, n, a) ==
    { BorrowOutcome(s, n, a), RepayOutcome(s, n, a),
      TransferToOutcome(s, n, a), TransferFromOutcome(s, n, a) }
C16_Refused ==
    /\ strategies = ConfiguredStrategies
    /\ \A s \in Outsiders :
           /\ token_bal[s] = InitialTokens(s)
           /\ \A n \in -1 .. MaxAmount + 1, a \in BOOLEAN : "ok" \notin StrategyOutcomes(s, n, a)
           /\ \A n \in 1 .. MaxAmount + 1 : StrategyOutcomes(s, n, TRUE) = {"UnauthorizedStrategy"}
C16_ConfigKept ==
    /\ config' = config
    /\ (Did("borrow") \/ Did("repay") \/ Did("transfer_to") \/ Did("transfer_from"))
           => last'.who \in ConfiguredStrategies
    /\ DOMAIN strategy_data' = ConfiguredStrategies
OutcomeOf(c) ==
    CASE c.op = "deposit" -> DepositOutcome(c.amt, c.who, TRUE)
      [] c.op = "mint" -> MintOutcome(c.amt, c.who, TRUE)
      [] c.op = "request_redeem" -> RequestRedeemOutcome(c.amt, c.who, TRUE)
      [] c.op = "redeem" -> RedeemOutcome(c.amt, c.rcv, c.who, TRUE)
      [] c.op = "emergency_redeem" -> EmergencyRedeemOutcome(c.who, TRUE)
      [] c.op = "cancel_redeem" -> CancelRedeemOutcome(c.who, TRUE)
      [] c.op = "borrow" -> BorrowOutcome(c.who, c.amt, TRUE)
      [] c.op = "repay" -> RepayOutcome(c.who, c.amt, TRUE)
      [] c.op = "transfer_to" -> TransferToOutcome(c.who, c.amt, TRUE)
      [] c.op = "transfer_from" -> TransferFromOutcome(c.who, c.amt, TRUE)
      [] OTHER -> "none"
RedemptionOps == {"request_redeem", "redeem", "emergency_redeem", "cancel_redeem"}
StrategyOps == {"borrow", "repay", "transfer_to", "transfer_from"}
AllAmounts == -1 .. MaxAmount + 1

\* C17: authorization -- an operation changes state only if the principal it
\* names (receiver for deposit and mint, owner for the four redemption
\* operations, strategy for the four strategy operations) authorized the
\* call; without the authorization the call fails before any change.  So an
\* owner's request is created, shrunk or deleted only by that owner's
\* operations, and a strategy's data changes only by that strategy's.
C17_Unauthorized ==
    /\ \A n \in AllAmounts, u \in Users :
           /\ DepositOutcome(n, u, FALSE) = "Unauthorized"
           /\ MintOutcome(n, u, FALSE) = "Unauthorized"
           /\ RequestRedeemOutcome(n, u, FALSE) = "Unauthorized"
           /\ \A r \in Users : RedeemOutcome(n, r, u, FALSE) = "Unauthorized"
    /\ \A u \in Users :
           /\ EmergencyRedeemOutcome(u, FALSE) = "Unauthorized"
           /\ CancelRedeemOutcome(u, FALSE) = "Unauthorized"
    /\ \A n \in AllAmounts, s \in Callers : StrategyOutcomes(s, n, FALSE) = {"Unauthorized"}
C17_OwnOperations ==
    /\ \A o \in Users :
           /\ requests'[o] # requests[o] => (last'.who = o /\ last'.op \in RedemptionOps)
           /\ share_bal'[o] < share_bal[o] => (last'.who = o /\ last'.op = "request_redeem")
           /\ token_bal'[o] < token_bal[o] => (last'.who = o /\ last'.op \in {"deposit", "mint"})
    /\ \A s \in strategies :
           /\ strategy_data'[s] # strategy_data[s] => (last'.who = s /\ last'.op \in StrategyOps)
           /\ token_bal'[s] < token_bal[s] =>
                  (last'.who = s /\ last'.op \in {"repay", "transfer_from"})
C17_Authorization == []C17_Unauthorized /\ [][C17_OwnOperations]_vars
\* one owner has cancelled while the other owner's request stays as it was
C17_Witness ==
    /\ last.op = "cancel_redeem"
    /\ \E o \in LiveOwners : o # last.who /\ CancelRedeemOutcome(o, FALSE) = "Unauthorized"

\* C18: all-or-nothing on collaborator failure -- when a call fails inside an
\* asset or share transfer (deposit or mint when the payer holds too few
\* tokens, request_redeem for more shares than the owner holds, redeem or
\* emergency_redeem whose payout exceeds the vault's on-hand balance,
\* transfer_to above the on-hand balance, repay or transfer_from above the
\* strategy's balance) or, for borrow above the on-hand balance, in the
\* liquidity guard, nothing of the call persists: every change of state is
\* the effect of a call whose outcome was ok.
C18_TransferFails ==
    /\ \A u \in Users, n \in 1 .. MaxAmount + 1 :
           /\ n > token_bal[u] => DepositOutcome(n, u, TRUE) = "TokenError"
           /\ MintTokens(n) > token_bal[u] => MintOutcome(n, u, TRUE) = "TokenError"
           /\ (~has_redemption_request(u) /\ n > share_bal[u])
                  => RequestRedeemOutcome(n, u, TRUE) = "TokenError"
    /\ \A o \in LiveOwners :
           /\ (now >= requests[o].unlock_time /\ total_shares > 0
                   /\ RedeemTokens(requests[o].shares) > token_bal[VaultAddr])
                  => RedeemOutcome(requests[o].shares, o, o, TRUE) = "TokenError"
           /\ (total_shares > 0 /\ EmergencyPayout(o) > token_bal[VaultAddr])
                  => EmergencyRedeemOutcome(o, TRUE) = "TokenError"
    /\ \A s \in strategies, n \in 1 .. MaxAmount + 1 :
           /\ n > token_bal[VaultAddr] =>
                  /\ TransferToOutcome(s, n, TRUE) = "TokenError"
                  /\ BorrowOutcome(s, n, TRUE) = "InsufficientVaultBalance"
           /\ n > token_bal[s] =>
                  /\ TransferFromOutcome(s, n, TRUE) = "TokenError"
                  /\ n <= strategy_data[s].borrowed => RepayOutcome(s, n, TRUE) = "TokenError"
C18_OnlySuccessActs == (vars' # vars /\ now' = now) => OutcomeOf(last') = "ok"
C19_Rejected ==
    \A n \in -2 .. 0 :
        /\ \A u \in Users :
               /\ DepositOutcome(n, u, TRUE) = "ZeroAmount"
               /\ MintOutcome(n, u, TRUE) = "ZeroAmount"
               /\ RequestRedeemOutcome(n, u, TRUE) = "ZeroAmount"
        /\ \A s \in Callers : StrategyOutcomes(s, n, TRUE) = {"ZeroAmount"}
C19_PositiveAmounts ==
    (now' = now /\ last'.op \in {"deposit", "mint", "request_redeem"} \cup StrategyOps)
        => last'.amt > 0
C19_NonPositiveAmounts == []C19_Rejected /\ [][C19_PositiveAmounts]_vars
\* right after a deposit: deposit, mint, request_redeem, borrow and
\* transfer_to would go through with amount 1 and are refused with amount 0
C19_Witness ==
    /\ last.op = "deposit" /\ last.amt > 0
    /\ \E u \in Users : DepositOutcome(1, u, TRUE) = "ok" /\ MintOutcome(1, u, TRUE) = "ok"
                           /\ DepositOutcome(0, u, TRUE) = "ZeroAmount"
                           /\ MintOutcome(0, u, TRUE) = "ZeroAmount"
    /\ \E u \in Users : RequestRedeemOutcome(1, u, TRUE) = "ok"
                           /\ RequestRedeemOutcome(0, u, TRUE) = "ZeroAmount"
    /\ \E s \in strategies :
           /\ BorrowOutcome(s, 1, TRUE) = "ok" /\ TransferToOutcome(s, 1, TRUE) = "ok"
           /\ BorrowOutcome(s, 0, TRUE) = "ZeroAmount"
           /\ TransferToOutcome(s, 0, TRUE) = "ZeroAmount"

\* C20: missing request -- redeem, emergency_redeem and cancel_redeem called
\* for an owner with no live request (never requested, or already fully
\* redeemed, emergency-redeemed or cancelled) fail with a not-found error and
\* change nothing; they never proceed with a defaulted zero-share request.
C20_NotFound ==
    \A o \in Users \ LiveOwners :
        /\ \A k \in AllAmounts, r \in Users : RedeemOutcome(k, r, o, TRUE) = "NotFound"
        /\ EmergencyRedeemOutcome(o, TRUE) = "NotFound"
        /\ CancelRedeemOutcome(o, TRUE) = "NotFound"
C20_NeedsRequest ==
    (now' = now /\ last'.op \in {"redeem", "emergency_redeem", "cancel_redeem"}) =>
        /\ has_redemption_request(last'.who)
        /\ requests[last'.who].shares > 0
        /\ last'.op # "redeem" => last'.amt = requests[last'.who].shares
C21_Insufficient ==
    \A o \in LiveOwners, r \in Users, k \in AllAmounts :
        (now >= requests[o].unlock_time /\ k > requests[o].shares)
            => RedeemOutcome(k, r, o, TRUE) = "InsufficientShares"
C21_PartialEffect ==
    (Did("redeem") /\ 0 < last'.amt /\ last'.amt < requests[last'.who].shares) =>
        LET o == last'.who
            k == last'.amt
            request == requests[o]
            payout == (k * total_tokens) \div total_shares
        IN  /\ now >= request.unlock_time
            /\ last'.ret = payout
            /\ total_shares' = total_shares - k
            /\ total_tokens' = total_tokens - payout
            /\ token_bal'[VaultAddr] = token_bal[VaultAddr] - payout
            /\ requests' = [requests EXCEPT ![o] =
                               [shares |-> request.shares - k,
                                unlock_time |-> request.unlock_time]]
            /\ share_bal' = [[share_bal EXCEPT ![VaultAddr] = @ - request.shares]
                                        EXCEPT ![o] = @ + (request.shares - k)]
ScenarioDeposited ==
    /\ share_bal["u1"] = Lots(10000) /\ token_bal["u1"] = 0
    /\ share_bal["u2"] = Lots(5000) /\ token_bal["u2"] = Lots(8640)
\* C22: end-to-end profit scenario -- after deposits of 10,000 and 5,000 (both
\* at one token per share), a strategy borrow of 6,000, its repayment and a
\* transfer_from of 1,200, total_tokens is 16,200 and total_shares is 15,000,
\* and a deposit of 8,640 then mints exactly 8,000 shares; in general a
\* successful deposit of t at totals (S, T), both > 0, mints floor(t * S / T)
\* shares and increases total_shares by that amount and total_tokens by t.
\* while the 6,000 are out the totals stay at 15,000; once the debt is repaid
\* and the profit handed over, they are 16,200 and 15,000
C22_ScenarioTotals ==
    /\ (ScenarioDeposited
          /\ strategy_data["s1"] = [borrowed |-> Lots(6000), net_impact |-> 0]) =>
            /\ total_tokens = Lots(15000)
            /\ total_shares = Lots(15000)
            /\ token_bal[VaultAddr] = Lots(9000)
    /\ (ScenarioDeposited
          /\ strategy_data["s1"] = [borrowed |-> 0, net_impact |-> Lots(1200)]) =>
            /\ total_tokens = Lots(16200)
            /\ total_shares = Lots(15000)
            /\ total_tokens * 100 = total_shares * 108
            /\ DepositOutcome(Lots(8640), "u2", TRUE) = "ok"
            /\ DepositShares(Lots(8640)) = Lots(8000)
            /\ shares_from_tokens(15000, 16200, 8640) = 8000
C22_DepositEffect ==
    (Did("deposit") /\ total_shares > 0 /\ total_tokens > 0) =>
        LET t == last'.amt
            minted == (t * total_shares) \div total_tokens
        IN  /\ t > 0
            /\ last'.ret = minted
            /\ total_shares' = total_shares + minted
            /\ total_tokens' = total_tokens + t
            /\ share_bal' = [share_bal EXCEPT ![last'.rcv] = @ + minted]
            /\ token_bal' = [[token_bal EXCEPT ![last'.who] = @ - t]
                                        EXCEPT ![VaultAddr] = @ + t]
C22_ProfitScenario == []C22_ScenarioTotals /\ [][C22_DepositEffect]_vars
\* the deposit of 8,640 has been made at the price of 1.08 and minted 8,000
C22_Witness ==
    /\ last = Call("deposit", "u2", "u2", Lots(8640), Lots(8000))
    /\ share_bal["u1"] = Lots(10000)
    /\ share_bal["u2"] = Lots(5000) + Lots(8000)
    /\ strategy_data["s1"] = [borrowed |-> 0, net_impact |-> Lots(1200)]
    /\ total_shares = Lots(23000)
    /\ total_tokens = Lots(24840)

\* C23: construction -- the constructor fails with InvalidAmount when
\* penalty_rate or min_liquidity_rate lies outside [0, SCALE]; otherwise the
\* initial state has total_shares = 0, total_tokens = 0, no redemption
\* request, and StrategyData {borrowed: 0, net_impact: 0} for every configured
\* strategy.  Hence both rates lie in [0, SCALE] in every reachable state.
C23_Rates ==
    /\ 0 <= penalty_rate /\ penalty_rate <= SCALAR_7
    /\ 0 <= min_liquidity_rate /\ min_liquidity_rate <= SCALAR_7
C23_Validation ==
    \A penalty \in RateInputs, min_liquidity \in RateInputs :
        ConstructOutcome(penalty, min_liquidity) =
            IF /\ 0 <= penalty /\ penalty <= SCALAR_7
               /\ 0 <= min_liquidity /\ min_liquidity <= SCALAR_7
            THEN "ok" ELSE "InvalidAmount"
C23_InitialState ==
    last.op = "init" =>
        /\ total_shares = 0
        /\ total_tokens = 0
        /\ \A u \in Users : ~has_redemption_request(u)
        /\ DOMAIN strategy_data = strategies
        /\ \A s \in strategies : strategy_data[s] = [borrowed |-> 0, net_impact |-> 0]
C23_Construction == C23_Rates /\ C23_Validation /\ C23_InitialState
\* a vault constructed with rates at both ends of the range is in use
C23_Witness ==
    /\ penalty_rate = SCALAR_7
    /\ min_liquidity_rate = 0
    /\ total_shares > 0
    /\ \E s \in strategies : strategy_data[s].borrowed > 0
\* the state right after a construction with boundary rates
C23_WitnessInitial ==
    /\ last.op = "init"
    /\ penalty_rate = 0
    /\ min_liquidity_rate = SCALAR_7

\* C24: every successful deposit mints a strictly positive number of shares --
\* if deposit(t) with t > 0 succeeds (the tokens are taken from the
\* depositor), the returned share amount is > 0.
C24_DepositMintsShares == last.op = "deposit" => last.ret > 0

\* the default scenario before its second deposit: 10,000 deposited at par,
\* 4,000 lent and not repaid
ScenarioDefaulted ==
    /\ share_bal["u1"] = Lots(10000) /\ token_bal["u1"] = 0
    /\ share_bal["u2"] = 0 /\ token_bal["u2"] = ScenarioFunds["u2"]
    /\ strategy_data["s1"] = [borrowed |-> Lots(4000), net_impact |-> 0]
C25_DefaultTotals ==
    ScenarioDefaulted =>
        /\ total_tokens = Lots(10000)
        /\ total_shares = Lots(10000)
        /\ token_bal[VaultAddr] = Lots(6000)
        /\ DepositOutcome(Lots(6000), "u2", TRUE) = "ok"
        /\ DepositShares(Lots(6000)) = Lots(6000)
        /\ shares_from_tokens(10000, 10000, 6000) = 6000
C25_BorrowStep ==
    /\ Did("borrow") =>
        /\ total_tokens' = total_tokens
        /\ total_shares' = total_shares
        /\ \A d \in ScenarioDeposits : DepositShares(d[1])' = DepositShares(d[1])
    /\ (Did("deposit") /\ strategy_data["s1"].borrowed > 0 /\ total_shares > 0) =>
        /\ last'.ret = shares_from_tokens(total_shares, total_tokens, last'.amt)
        /\ total_tokens' = total_tokens + last'.amt
C26_WitnessDepositLock ==
    /\ gate_policy = "deposit_lock"
    /\ \E p \in Users : p \notin DOMAIN last_deposit_time /\ share_bal[p] > 0

\* C27: share lock lifetime -- every deposit or mint crediting principal P
\* sets LastDepositTime[P] = now, and P is locked exactly while
\* now < LastDepositTime[P] + lock_time; a later deposit restarts the lock from
\* the time of that deposit; while P is locked, transfer and transfer_from of
\* P's shares fail with SharesLocked (the call is rolled back), and once the
\* lock has expired they succeed.
C27_Locked ==
    \A p \in DOMAIN last_deposit_time :
        /\ is_locked(p) <=> now < last_deposit_time[p] + lock_time
        /\ is_locked(p) =>
              \A n \in AllAmounts, allowed \in BOOLEAN :
                  ShareTransferOutcome(p, n, allowed) = "SharesLocked"
        /\ ~is_locked(p) =>
              \A n \in 1 .. share_bal[p] : ShareTransferOutcome(p, n, TRUE) = "ok"
C27_Stamps ==
    /\ (Did("deposit") \/ Did("mint")) =>
          /\ DOMAIN last_deposit_time' = DOMAIN last_deposit_time \cup {last'.rcv}
          /\ last_deposit_time'[last'.rcv] = now
          /\ \A u \in DOMAIN last_deposit_time \ {last'.rcv} :
                last_deposit_time'[u] = last_deposit_time[u]
    /\ ~(Did("deposit") \/ Did("mint")) => last_deposit_time' = last_deposit_time
    /\ (Did("share_transfer") \/ Did("share_transfer_from")) =>
          /\ ~is_locked(last'.who)
          /\ share_bal' = [[share_bal EXCEPT ![last'.who] = @ - last'.amt]
                                      EXCEPT ![last'.rcv] = @ + last'.amt]
C27_ShareLockLifetime == []C27_Locked /\ [][C27_Stamps]_vars
\* a principal that held shares deposits again after the lock of a deposit at
\* time 0 has run out: it is locked again and its transfers are refused
C27_Witness ==
    /\ last.op = "deposit"
    /\ now >= lock_time
    /\ last_deposit_time[last.rcv] = now
    /\ share_bal[last.rcv] > last.ret
    /\ is_locked(last.rcv)
    /\ ShareTransferOutcome(last.rcv, 1, TRUE) = "SharesLocked"
\* a depositor has transferred shares after its lock expired
C27_WitnessExpired ==
    /\ last.op \in {"share_transfer", "share_transfer_from"}
    /\ last.amt > 0
    /\ last.who \in DOMAIN last_deposit_time
    /\ now >= last_deposit_time[last.who] + lock_time

\* the sum of borrowed over the configured strategies
RECURSIVE SumBorrowed(_)
SumBorrowed(strats) ==
    IF strats = {} THEN 0
    ELSE LET s == CHOOSE x \in strats : TRUE
         IN  strategy_data[s].borrowed + SumBorrowed(strats \ {s})
C29_NonNegativeAggregates ==
    /\ total_tokens >= 0
    /\ total_shares >= 0
    /\ \A s \in Callers, n \in AllAmounts :
          TransferToOutcome(s, n, TRUE) = "ok" => n <= total_tokens
    /\ \A o \in Users, n \in AllAmounts :
          RedeemOutcome(n, o, o, TRUE) = "ok" =>
              (n <= total_shares /\ RedeemTokens(n) <= total_tokens)
    /\ \A o \in Users :
          EmergencyRedeemOutcome(o, TRUE) = "ok" =>
              (requests[o].shares <= total_shares /\ EmergencyPayout(o) <= total_tokens)

\* C30: the share price never falls except by transfer_to -- across every
\* successful deposit, mint, redeem, emergency_redeem, request_redeem,
\* cancel_redeem, borrow, repay and transfer_from that starts and ends with
\* shares outstanding, total_tokens' * total_shares >= total_tokens *
\* total_shares': the price per share does not decrease for the holders that
\* remain.  Only a transfer_to step is exempt.
C30_PriceStep ==
    (/\ total_shares > 0
     /\ total_shares' > 0
     /\ ~Did("transfer_to"))
    => total_tokens' * total_shares >= total_tokens * total_shares'

C31_RoundTripNoProfit ==
    last.op = "deposit" => RedeemTokens(last.ret) <= last.amt

\* C32: redeem requires a positive share amount -- every successful redeem
\* burns a strictly positive number of shares and strictly reduces (or
\* deletes) the owner's request; redeem called with shares <= 0 fails and
\* changes nothing, so it cannot hand escrowed shares back to the owner while
\* the request stays live.
C32_AmountPositive ==
    \A o \in Users, r \in Users, n \in AllAmounts :
        n <= 0 => RedeemOutcome(n, r, o, TRUE) # "ok"

C32_RequestShrinks ==
    Did("redeem") =>
        /\ last'.amt > 0
        /\ total_shares' < total_shares
        /\ requests'[last'.who].shares < requests[last'.who].shares
        /\ share_bal'[last'.who] = share_bal[last'.who]

C32_RedeemPositive == []C32_AmountPositive /\ [][C32_RequestShrinks]_vars

\* C33: a live request can always be exited -- in every reachable state in
\* which an owner has a live redemption request, cancel_redeem by that owner
\* succeeds (the vault holds at least request.shares in custody), and after
\* unlock a redeem of the full requested amount is not stopped by a shortage
\* of escrowed shares.
C33_LiveRequestExit ==
    \A o \in Users :
        has_redemption_request(o) =>
            /\ CancelRedeemOutcome(o, TRUE) = "ok"
            /\ share_bal[VaultAddr] >= requests[o].shares
            /\ (now >= requests[o].unlock_time /\ total_shares > 0)
                   => CanTransfer(share_bal, VaultAddr, requests[o].shares)

\* C34: the price stays 1:1 without settlement -- in every state reached with
\* deposit, mint, request_redeem, redeem, cancel_redeem, borrow and repay
\* only (no transfer_to, no transfer_from, no emergency redemption with a
\* penalty), total_tokens = total_shares; every deposit of t mints exactly t
\* shares and every redeem of k shares pays exactly k tokens.
C34_Par == total_tokens = total_shares

C34_AtPar ==
    /\ (Did("deposit") \/ Did("redeem") \/ Did("mint") \/ Did("emergency_redeem"))
           => last'.ret = last'.amt
    /\ Did("deposit") => total_shares' = total_shares + last'.amt
    /\ Did("redeem") => total_tokens' = total_tokens - last'.amt

UnlockedOwners == {o \in Users : has_redemption_request(o) /\ now >= requests[o].unlock_time}

\* C35 as stated: emergency redemption after unlock equals full redemption --
\* in every reachable state with a live request and now >= unlock_time,
\* emergency_redeem(owner) and redeem(request.shares, owner, owner) succeed or
\* fail together and pay the same amount.
C35_EmergencyEqualsRedeem ==
    \A o \in UnlockedOwners :
        /\ EmergencyRedeemOutcome(o, TRUE) = "ok"
               <=> RedeemOutcome(requests[o].shares, o, o, TRUE) = "ok"
        /\ EmergencyRedeemOutcome(o, TRUE) = "ok"
               => EmergencyPayout(o) = RedeemTokens(requests[o].shares)

\* C35 as amended: the two calls succeed or fail together and pay the same
\* amount when the redemption value of the requested shares is positive; at
\* a value of 0 emergency_redeem fails with InvalidAmount and never pays,
\* whatever redeem does.
C35_SameOutcome ==
    \A o \in UnlockedOwners :
        IF total_shares > 0 /\ RedeemTokens(requests[o].shares) <= 0
        THEN EmergencyRedeemOutcome(o, TRUE) = "InvalidAmount"
        ELSE /\ EmergencyRedeemOutcome(o, TRUE) = RedeemOutcome(requests[o].shares, o, o, TRUE)
             /\ EmergencyRedeemOutcome(o, TRUE) = "ok"
                    => EmergencyPayout(o) = RedeemTokens(requests[o].shares)

\* an emergency redemption made after unlock leaves the state a full redeem
\* to the owner leaves, and the other way round
C35_SameEffect ==
    \A o \in UnlockedOwners :
        LET k == requests[o].shares
        IN  /\ (Did("emergency_redeem") /\ last'.who = o) =>
                /\ last'.ret = RedeemTokens(k)
                /\ last'.amt = k
                /\ total_shares' = total_shares - k
                /\ total_tokens' = total_tokens - RedeemTokens(k)
                /\ token_bal' = Transfer(token_bal, VaultAddr, o, RedeemTokens(k))
                /\ share_bal' = Burn(share_bal, VaultAddr, k)
                /\ requests' = [requests EXCEPT ![o] = NoRequest]
            /\ (Did("redeem") /\ last'.who = o /\ last'.rcv = o /\ last'.amt = k
                  /\ EmergencyPayout(o) > 0) =>
                /\ last'.ret = EmergencyPayout(o)
                /\ total_shares' = total_shares - k
                /\ total_tokens' = total_tokens - EmergencyPayout(o)
                /\ token_bal' = Transfer(token_bal, VaultAddr, o, EmergencyPayout(o))
                /\ share_bal' = Burn(share_bal, VaultAddr, k)
                /\ requests' = [requests EXCEPT ![o] = NoRequest]

C35_EmergencyAfterUnlock == []C35_SameOutcome /\ [][C35_SameEffect]_vars

\* a request has just reached its unlock time at a price that does not divide
\* evenly, another user holds shares, and both calls would succeed
C35_Witness ==
    \E o \in UnlockedOwners :
        /\ now = requests[o].unlock_time
        /\ total_shares > requests[o].shares
        /\ total_tokens > total_shares
        /\ EmergencyRedeemOutcome(o, TRUE) = "ok"
        /\ RedeemOutcome(requests[o].shares, o, o, TRUE) = "ok"

\* C36: zero lock time is safe -- with lock_time = 0 every request has
\* unlock_time equal to its request time, so (the clock never runs back)
\* emergency_redeem always takes the now >= unlock_time path, charges no
\* penalty, and the division by lock_time is evaluated in no reachable state.
C36_FastPath ==
    lock_time = 0 =>
        \A o \in Users :
            has_redemption_request(o) =>
                /\ requests[o].unlock_time <= now
                /\ EmergencyPenalty(o) = 0
                /\ calculate_penalty(MaxAmount, requests[o].unlock_time, lock_time,
                                     penalty_rate, now) = 0
                /\ total_shares > 0 => EmergencyRedeemOutcome(o, TRUE) # "ArithmeticError"

C36_Steps ==
    /\ now' >= now
    /\ lock_time' = lock_time
    /\ (lock_time = 0 /\ Did("request_redeem")) => requests'[last'.who].unlock_time = now
    /\ (lock_time = 0 /\ Did("emergency_redeem") /\ total_shares > 0) =>
           last'.ret = FixedMulFloor(last'.amt, total_tokens, total_shares)

C36_ZeroLockTime == []C36_FastPath /\ [][C36_Steps]_vars

\* an emergency redemption has paid the full value of a request in a vault
\* with no lock time, some time after deployment
C36_Witness ==
    /\ lock_time = 0
    /\ last.op = "emergency_redeem"
    /\ last.ret > 0
    /\ now > 0
    /\ total_shares > 0

\* C37: mint-then-deposit inversion -- for every total_shares > 0 and
\* total_tokens > 0 and every share amount s > 0,
\* shares_from_tokens(tokens_from_shares(s)) >= s: depositing the token amount
\* quoted for minting s shares yields at least s shares.
C37_MintDepositInversion ==
    (total_shares > 0 /\ total_tokens > 0) =>
        /\ \A s \in 1 .. MaxPool + 1 :
              shares_from_tokens(total_shares, total_tokens,
                                 tokens_from_shares(total_shares, total_tokens, s)) >= s
        /\ last.op = "tokens_from_shares" =>
              shares_from_tokens(total_shares, total_tokens, last.ret) >= last.amt

\* the quote just made buys more shares by deposit than it was made for
C37_Witness ==
    /\ last.op = "tokens_from_shares"
    /\ total_shares > 0 /\ total_tokens > 0
    /\ shares_from_tokens(total_shares, total_tokens, last.ret) > last.amt

\* the quote was rounded up and buys exactly the shares it was made for
C37_WitnessExact ==
    /\ last.op = "tokens_from_shares"
    /\ total_shares > 0 /\ total_tokens > 0
    /\ last.ret * total_shares > last.amt * total_tokens
    /\ shares_from_tokens(total_shares, total_tokens, last.ret) = last.amt

\* C38: deposit is fairly priced up to rounding -- in every reachable state,
\* right after a successful deposit of t tokens the redemption value of the
\* shares just minted, at the totals after the deposit, is greater than
\* t - (price of one share after the deposit + one token); the state
\* total_tokens = 0 with total_shares > 0, where the 1:1 bootstrap branch is
\* taken, included.  With the price total_tokens / total_shares the
\* inequality is multiplied through by total_shares.
C38_DepositFairlyPriced ==
    last.op = "deposit" =>
        RedeemTokens(last.ret) * total_shares + total_tokens
            > (last.amt - 1) * total_shares

\* C39: the monolithic contract (contract.rs) and the modular variant
\* (vault.rs, strategy.rs over math.rs and validation.rs) agree: in every
\* reachable state and for every argument, an authorized call of an operation
\* succeeds in both or fails in both (redeem with total_shares = 0 and borrow
\* with total_tokens = 0 included), and when it succeeds the two leave the same
\* totals, balances, requests and strategy records and return the same value.
C39_SameOutcome ==
    /\ \A r \in Users : \A n \in AllAmounts :
          /\ (DepositOutcome(n, r, TRUE) = "ok") <=> (VaultDepositOutcome(n, r) = "ok")
          /\ (MintOutcome(n, r, TRUE) = "ok") <=> (VaultMintOutcome(n, r) = "ok")
          /\ (RequestRedeemOutcome(n, r, TRUE) = "ok")
                <=> (VaultRequestRedeemOutcome(n, r) = "ok")
    /\ \A o \in Users : \A r \in Users : \A n \in AllAmounts :
          (RedeemOutcome(n, r, o, TRUE) = "ok") <=> (VaultRedeemOutcome(n, r, o) = "ok")
    /\ \A o \in Users :
          /\ (EmergencyRedeemOutcome(o, TRUE) = "ok")
                <=> (VaultEmergencyRedeemOutcome(o) = "ok")
          /\ (CancelRedeemOutcome(o, TRUE) = "ok") <=> (VaultCancelRedeemOutcome(o) = "ok")
    /\ \A s \in Callers : \A n \in AllAmounts :
          /\ (BorrowOutcome(s, n, TRUE) = "ok") <=> (StrategyBorrowOutcome(s, n) = "ok")
          /\ (RepayOutcome(s, n, TRUE) = "ok") <=> (StrategyRepayOutcome(s, n) = "ok")
          /\ (TransferToOutcome(s, n, TRUE) = "ok")
                <=> (StrategyTransferToOutcome(s, n) = "ok")
          /\ (TransferFromOutcome(s, n, TRUE) = "ok")
                <=> (StrategyTransferFromOutcome(s, n) = "ok")

C39_SameEffect ==
    /\ Did("deposit") => VaultDeposit(last'.amt, last'.who)
    /\ Did("mint") => VaultMint(last'.amt, last'.who)
    /\ Did("request_redeem") => VaultRequestRedeem(last'.amt, last'.who)
    /\ Did("redeem") => VaultRedeem(last'.amt, last'.rcv, last'.who)
    /\ Did("emergency_redeem") => VaultEmergencyRedeem(last'.who)
    /\ Did("cancel_redeem") => VaultCancelRedeem(last'.who)
    /\ Did("borrow") => StrategyBorrow(last'.who, last'.amt)
    /\ Did("repay") => StrategyRepay(last'.who, last'.amt)
    /\ Did("transfer_to") => StrategyTransferTo(last'.who, last'.amt)
    /\ Did("transfer_from") => StrategyTransferFrom(last'.who, last'.amt)

C39_ImplementationsAgree == []C39_SameOutcome /\ [][C39_SameEffect]_vars

\* the supply is empty while a request is still live and unlocked (redeem is
\* then evaluated with total_shares = 0: contract.rs divides by zero, vault.rs
\* prices the shares at 0 and fails at the burn or the refund); a configured
\* strategy faces total_tokens = 0 with shares outstanding (borrow is then
\* evaluated on the empty pool); a redeem has paid out at a price off par
C39_WitnessEmptySupply ==
    /\ total_shares = 0
    /\ \E o \in Users : /\ has_redemption_request(o)
                        /\ now >= requests[o].unlock_time

C39_WitnessEmptyPool ==
    /\ total_tokens = 0
    /\ total_shares > 0
    /\ strategies # {}

C39_Witness ==
    /\ last.op = "redeem"
    /\ last.ret > 0
    /\ total_shares > 0
    /\ total_tokens # total_shares
    /\ \E o \in Users : has_redemption_request(o)

====
